---------------------------- MODULE Spec2Model ----------------------------
(***************************************************************************)
(* LeakHub: consensus verification of leak submissions.                    *)
(*                                                                         *)
(* Texts are sequences of one-character strings.  A similarity score is a  *)
(* non-negative real s, carried exactly as the fraction num/den = s * s   *)
(* (the cosine score divides by a square root, so s itself need not be     *)
(* rational, while s * s always is); comparisons of scores compare the     *)
(* squares.                                                                *)
(***************************************************************************)
EXTENDS Integers, Sequences, FiniteSets, Bags, TLC

(***************************************************************************)
(* Bounds of the model.                                                    *)
(***************************************************************************)
MaxRequests == 1
MaxLeaks == 3
MaxLooseLeaks == 1
MaxTime == 2
TwoMaxRequests == 2
TwoMaxLeaks == 4
MaxDetails == 5

Users == {"u1", "u2", "u3"}
NoUser == "none"

(***************************************************************************)
(* Characters.                                                             *)
(***************************************************************************)
Whitespace == {" ", "\n"}

ToLowerCase(c) ==
  CASE c = "A" -> "a"
    [] c = "B" -> "b"
    [] c = "C" -> "c"
    [] OTHER -> c

IsSpace(c) == c \in Whitespace

(***************************************************************************)
(* normalizeText                                                           *)
(***************************************************************************)
LowerAll(s) == [i \in 1..Len(s) |-> ToLowerCase(s[i])]

RECURSIVE TrimStart(_)
TrimStart(s) ==
  IF s # <<>> /\ IsSpace(Head(s)) THEN TrimStart(Tail(s)) ELSE s

\* Mutant: one character is stripped from the end, not the whole run.
TrimEndOnce(s) ==
  IF s # <<>> /\ IsSpace(s[Len(s)]) THEN SubSeq(s, 1, Len(s) - 1) ELSE s

RECURSIVE TrimEnd(_)
TrimEnd(s) ==
  IF s # <<>> /\ IsSpace(s[Len(s)]) THEN TrimEnd(SubSeq(s, 1, Len(s) - 1)) ELSE s

Trim(s) == TrimEnd(TrimStart(s))

\* s.replace(/\s+/g, " ")
RECURSIVE CollapseSpaces(_)
CollapseSpaces(s) ==
  IF s = <<>> THEN <<>>
  ELSE IF IsSpace(Head(s)) THEN <<" ">> \o CollapseSpaces(TrimStart(s))
  ELSE <<Head(s)>> \o CollapseSpaces(Tail(s))

\* Length of the longest run of whitespace at the start of s.
RECURSIVE SpaceRun(_)
SpaceRun(s) ==
  IF s # <<>> /\ IsSpace(Head(s)) THEN 1 + SpaceRun(Tail(s)) ELSE 0

\* Position of the last "\n" among the first n characters of s, 0 if none.
RECURSIVE LastNewline(_, _)
LastNewline(s, n) ==
  IF n = 0 THEN 0
  ELSE IF s[n] = "\n" THEN n
  ELSE LastNewline(s, n - 1)

\* s.replace(/\n\s*\n/g, "\n"): a newline, the whitespace after it up to the
\* last newline of that run of whitespace (n = 0: the run holds none, no match).
RECURSIVE CollapseBlankLines(_)
CollapseAfterHead(s, n) ==
  IF Head(s) = "\n" /\ n > 0
    THEN <<"\n">> \o CollapseBlankLines(SubSeq(s, n + 2, Len(s)))
    ELSE <<Head(s)>> \o CollapseBlankLines(Tail(s))

CollapseBlankLines(s) ==
  IF s = <<>> THEN <<>>
  ELSE CollapseAfterHead(s, LastNewline(Tail(s), SpaceRun(Tail(s))))

normalizeText(text) ==
  CollapseBlankLines(CollapseSpaces(Trim(LowerAll(text))))

(***************************************************************************)
(* Scores: the exact square of a non-negative real, as a fraction.         *)
(***************************************************************************)
Ratio(n, d) == [num |-> n * n, den |-> d * d]

ScoreLess(a, b) == a.num * b.den < b.num * a.den
ScoreAtLeast(a, b) == ~ScoreLess(a, b)
ScoreMax(a, b) == IF ScoreLess(a, b) THEN b ELSE a

SHINGLE_SIZE == 4
SHINGLE_THRESHOLD == Ratio(6, 10)
SIMILARITY_THRESHOLD == Ratio(85, 100)

(***************************************************************************)
(* buildShingleVector                                                      *)
(***************************************************************************)
\* text.split(/\s+/).filter(Boolean)
RECURSIVE FirstToken(_)
FirstToken(s) ==
  IF s = <<>> \/ IsSpace(Head(s)) THEN <<>>
  ELSE <<Head(s)>> \o FirstToken(Tail(s))

RECURSIVE Tokens(_)
TokenThenRest(s, token) ==
  <<token>> \o Tokens(SubSeq(s, Len(token) + 1, Len(s)))

TokensOfTrimmed(s) ==
  IF s = <<>> THEN <<>> ELSE TokenThenRest(s, FirstToken(s))

Tokens(s) == TokensOfTrimmed(TrimStart(s))

\* tokens.join(" ")
RECURSIVE JoinTokens(_)
JoinTokens(toks) ==
  IF toks = <<>> THEN <<>>
  ELSE IF Len(toks) = 1 THEN toks[1]
  ELSE toks[1] \o <<" ">> \o JoinTokens(Tail(toks))

\* The frequency map of the terms of a sequence.
CountTerms(terms) ==
  [t \in {terms[i] : i \in 1..Len(terms)} |->
     Cardinality({i \in 1..Len(terms) : terms[i] = t})]

Shingles(tokens) ==
  [i \in 1..(Len(tokens) - SHINGLE_SIZE + 1) |->
     JoinTokens(SubSeq(tokens, i, i + SHINGLE_SIZE - 1))]

\* For very short texts fall back to single tokens.
VectorOrTokens(tokens, vector) ==
  IF Len(tokens) = 0 THEN vector
  ELSE IF DOMAIN vector = {} THEN CountTerms(tokens)
  ELSE vector

ShingleVectorOf(tokens) == VectorOrTokens(tokens, CountTerms(Shingles(tokens)))

buildShingleVector(text) == ShingleVectorOf(Tokens(text))

(***************************************************************************)
(* cosineSimilarity                                                        *)
(***************************************************************************)
RECURSIVE SumOver(_, _)
SumOver(S, f) ==
  IF S = {} THEN 0
  ELSE LET x == CHOOSE y \in S : TRUE
       IN  f[x] + SumOver(S \ {x}, f)

\* Mutant: the dot product is divided by the magnitude of vecA alone.
cosineSimilarityByFirst(vecA, vecB) ==
  LET sizeA == Cardinality(DOMAIN vecA)
      sizeB == Cardinality(DOMAIN vecB)
      magA == SumOver(DOMAIN vecA, [t \in DOMAIN vecA |-> vecA[t] * vecA[t]])
      dot == SumOver(DOMAIN vecA,
                     [t \in DOMAIN vecA |->
                        IF t \in DOMAIN vecB THEN vecA[t] * vecB[t] ELSE 0])
  IN  IF sizeA = 0 \/ sizeB = 0
        THEN (IF sizeA = sizeB THEN Ratio(1, 1) ELSE Ratio(0, 1))
      ELSE IF magA = 0 THEN Ratio(0, 1)
      ELSE [num |-> dot * dot, den |-> magA * magA]

cosineSimilarity(vecA, vecB) ==
  LET sizeA == Cardinality(DOMAIN vecA)
      sizeB == Cardinality(DOMAIN vecB)
      magA == SumOver(DOMAIN vecA, [t \in DOMAIN vecA |-> vecA[t] * vecA[t]])
      magB == SumOver(DOMAIN vecB, [t \in DOMAIN vecB |-> vecB[t] * vecB[t]])
      smaller == IF sizeA <= sizeB THEN vecA ELSE vecB
      larger == IF sizeA <= sizeB THEN vecB ELSE vecA
      dot == SumOver(DOMAIN smaller,
                     [t \in DOMAIN smaller |->
                        IF t \in DOMAIN larger THEN smaller[t] * larger[t] ELSE 0])
  IN  IF sizeA = 0 \/ sizeB = 0
        THEN (IF sizeA = sizeB THEN Ratio(1, 1) ELSE Ratio(0, 1))
      ELSE IF magA = 0 \/ magB = 0 THEN Ratio(0, 1)
      ELSE [num |-> dot * dot, den |-> magA * magB]

(***************************************************************************)
(* levenshteinSimilarity                                                   *)
(***************************************************************************)
Min3(a, b, c) ==
  IF a <= b /\ a <= c THEN a ELSE IF b <= c THEN b ELSE c

\* The row of the edit-distance table for the i-th character of str1, built
\* left to right from the row before it.
RECURSIVE CurrentRow(_, _, _, _, _)
CurrentRow(previousRow, char1, str2, j, acc) ==
  IF j > Len(str2) THEN acc
  ELSE CurrentRow(previousRow, char1, str2, j + 1,
                  Append(acc,
                         Min3(acc[j] + 1,
                              previousRow[j + 1] + 1,
                              previousRow[j] +
                                (IF char1 = str2[j] THEN 0 ELSE 1))))

\* Rows are 1-indexed here: row[j + 1] is the code's row[j].  The row of an
\* iteration is complete before the next iteration starts.
RECURSIVE LastRow(_, _, _, _)
LastRow(str1, str2, i, previousRow) ==
  IF i > Len(str1) THEN previousRow
  ELSE CHOOSE row \in
         {LastRow(str1, str2, i + 1, currentRow) :
            currentRow \in {CurrentRow(previousRow, str1[i], str2, 1, <<i>>)}} :
         TRUE

\* Math.max(0, 1 - distance / Math.max(len1, len2))
SimilarityOfDistance(distance, longest) ==
  IF distance >= longest THEN Ratio(0, 1)
  ELSE Ratio(longest - distance, longest)

\* Mutant: the operands are not swapped and the distance is divided by the
\* length of str1.
levenshteinSimilarityUnswapped(str1, str2) ==
  IF Len(str1) = 0 /\ Len(str2) = 0 THEN Ratio(1, 1)
  ELSE IF Len(str1) = 0 \/ Len(str2) = 0 THEN Ratio(0, 1)
  ELSE SimilarityOfDistance(
         LastRow(str1, str2, 1, [j \in 1..(Len(str2) + 1) |-> j - 1])[Len(str2) + 1],
         Len(str1))

RECURSIVE levenshteinSimilarity(_, _)
levenshteinSimilarity(str1, str2) ==
  LET len1 == Len(str1)
      len2 == Len(str2)
  IN  IF len1 = 0 /\ len2 = 0 THEN Ratio(1, 1)
      ELSE IF len1 = 0 \/ len2 = 0 THEN Ratio(0, 1)
      ELSE IF len2 > len1 THEN levenshteinSimilarity(str2, str1)
      ELSE SimilarityOfDistance(
             LastRow(str1, str2, 1, [j \in 1..(len2 + 1) |-> j - 1])[len2 + 1],
             IF len1 >= len2 THEN len1 ELSE len2)

(***************************************************************************)
(* calculateSimilarity                                                     *)
(***************************************************************************)
\* Mutant: the edit distance is consulted whatever the shingle score.
ConfirmedScoreUngated(normalized1, normalized2, shingleScore) ==
  ScoreMax(shingleScore, levenshteinSimilarity(normalized1, normalized2))

\* The second stage: the edit distance, consulted when the shingle score
\* reaches the threshold.
ConfirmedScore(normalized1, normalized2, shingleScore) ==
  IF ScoreLess(shingleScore, SHINGLE_THRESHOLD) THEN shingleScore
  ELSE ScoreMax(shingleScore, levenshteinSimilarity(normalized1, normalized2))

SimilarityOfNormalized(normalized1, normalized2) ==
  IF normalized1 = normalized2 THEN Ratio(1, 1)
  ELSE ConfirmedScore(normalized1, normalized2,
                      cosineSimilarity(buildShingleVector(normalized1),
                                       buildShingleVector(normalized2)))

\* Mutant: the texts are compared as they are.
calculateSimilarityRaw(text1, text2) == SimilarityOfNormalized(text1, text2)

calculateSimilarity(text1, text2) ==
  SimilarityOfNormalized(normalizeText(text1), normalizeText(text2))


(***************************************************************************)
(* The texts the callers submit, and the scores of their pairs, each       *)
(* computed once by calculateSimilarity.                                   *)
(***************************************************************************)
TextA == <<"a", " ", "a", " ", "b">>
TextB == <<"A", " ", " ", "b">>
TextC == <<"a", " ", "b", " ", "b">>
LeakTexts == {TextA, TextB, TextC}

TargetNames == {<<"x">>, <<"X", " ">>, <<"y">>}

SimilarityTable ==
  [pair \in LeakTexts \X LeakTexts |-> calculateSimilarity(pair[1], pair[2])]
    @@ <<>>

Similarity(text1, text2) == SimilarityTable[<<text1, text2>>]

(***************************************************************************)
(* The consensus resolver: the pure part of processRequestConsensus.       *)
(* A leak detail is [leakId, leakText, submittedBy, isFullyVerified]; a    *)
(* group is [leakIds, userIds, representativeText]; a decision is          *)
(* [decided, leakId, verifierIds, reason].                                 *)
(***************************************************************************)
SeqContains(seq, x) == \E i \in 1..Len(seq) : seq[i] = x

SeqToSet(seq) == {seq[i] : i \in 1..Len(seq)}

\* Mutant: a run without a decision hands one to the mutation all the same.
NoDecisionHandedOn(why) ==
  [decided |-> TRUE, leakId |-> 1, verifierIds |-> <<"u2">>, reason |-> why]

NoDecision(why) ==
  [decided |-> FALSE, leakId |-> 0, verifierIds |-> <<>>, reason |-> why]

\* Mutant: the filter keeps every leak that has a submitter.
IsPendingOrVerified(detail) == detail.submittedBy # NoUser

\* data.leaks.filter(detail => !!detail.submittedBy && !detail.isFullyVerified)
IsPending(detail) == detail.submittedBy # NoUser /\ ~detail.isFullyVerified

PendingDetails(details) == SelectSeq(details, IsPending)

SubmitterSet(details) == {details[i].submittedBy : i \in 1..Len(details)}

\* Mutant: the score is held against the threshold of the coarse stage.
MatchesGroupCoarsely(group, text) ==
  ScoreAtLeast(Similarity(group.representativeText, text), SHINGLE_THRESHOLD)

\* Index of the first group whose representative scores at least the
\* threshold against the text, 0 when no group does.
MatchesGroup(group, text) ==
  ScoreAtLeast(Similarity(group.representativeText, text), SIMILARITY_THRESHOLD)

Lowest(S) == IF S = {} THEN 0 ELSE CHOOSE g \in S : \A h \in S : g <= h

\* Mutant: the inner loop does not stop at the first match and ends on the
\* last one.
LastMatchingGroup(groups, text) ==
  IF \A g \in 1..Len(groups) : ~MatchesGroup(groups[g], text) THEN 0
  ELSE CHOOSE g \in 1..Len(groups) :
         /\ MatchesGroup(groups[g], text)
         /\ \A h \in 1..Len(groups) : MatchesGroup(groups[h], text) => h <= g

FirstMatchingGroup(groups, text) ==
  Lowest({g \in 1..Len(groups) : MatchesGroup(groups[g], text)})

\* One iteration of the loop over leakDetails, g the group the inner loop
\* stops at (0: it stops at none).
AddToGroup(groups, detail, g) ==
  IF g = 0
    THEN Append(groups, [leakIds |-> <<detail.leakId>>,
                         userIds |-> <<detail.submittedBy>>,
                         representativeText |-> detail.leakText])
  ELSE IF ~SeqContains(groups[g].userIds, detail.submittedBy)
    THEN [groups EXCEPT ![g] =
            [leakIds |-> Append(groups[g].leakIds, detail.leakId),
             userIds |-> Append(groups[g].userIds, detail.submittedBy),
             representativeText |-> groups[g].representativeText]]
  ELSE groups

AddToGroups(groups, detail) ==
  AddToGroup(groups, detail, FirstMatchingGroup(groups, detail.leakText))

RECURSIVE SimilarityGroupsFrom(_, _, _)
SimilarityGroupsFrom(details, i, groups) ==
  IF i > Len(details) THEN groups
  ELSE SimilarityGroupsFrom(details, i + 1, AddToGroups(groups, details[i]))

SimilarityGroups(details) == SimilarityGroupsFrom(details, 1, <<>>)

\* Mutant: the scan replaces the largest group on a tie.
RECURSIVE LargestGroupFromLatest(_, _, _)
LargestGroupFromLatest(groups, i, largest) ==
  IF i > Len(groups) THEN largest
  ELSE IF /\ Len(groups[i].userIds) >= 2
          /\ (largest = 0 \/
              Len(groups[i].userIds) >= Len(groups[largest].userIds))
    THEN LargestGroupFromLatest(groups, i + 1, i)
  ELSE LargestGroupFromLatest(groups, i + 1, largest)

\* Mutant: the scan asks for three users in a group.
RECURSIVE LargestGroupFromThree(_, _, _)
LargestGroupFromThree(groups, i, largest) ==
  IF i > Len(groups) THEN largest
  ELSE IF /\ Len(groups[i].userIds) >= 3
          /\ (largest = 0 \/
              Len(groups[i].userIds) > Len(groups[largest].userIds))
    THEN LargestGroupFromThree(groups, i + 1, i)
  ELSE LargestGroupFromThree(groups, i + 1, largest)

\* Mutant: the scan takes a group of a single user.
RECURSIVE LargestGroupFromOne(_, _, _)
LargestGroupFromOne(groups, i, largest) ==
  IF i > Len(groups) THEN largest
  ELSE IF /\ Len(groups[i].userIds) >= 1
          /\ (largest = 0 \/
              Len(groups[i].userIds) > Len(groups[largest].userIds))
    THEN LargestGroupFromOne(groups, i + 1, i)
  ELSE LargestGroupFromOne(groups, i + 1, largest)

\* The scan for the largest group: an index into groups, 0 for null.
RECURSIVE LargestGroupFrom(_, _, _)
LargestGroupFrom(groups, i, largest) ==
  IF i > Len(groups) THEN largest
  ELSE IF /\ Len(groups[i].userIds) >= 2
          /\ (largest = 0 \/
              Len(groups[i].userIds) > Len(groups[largest].userIds))
    THEN LargestGroupFrom(groups, i + 1, i)
  ELSE LargestGroupFrom(groups, i + 1, largest)

LargestGroup(groups) == LargestGroupFrom(groups, 1, 0)

\* Mutant: the loop pushes every user of the group.
VerifierIdsUnfiltered(largestGroup, leakToVerify) == largestGroup.userIds

\* verifierIds: the users of the group other than the leak's submitter.
VerifierIds(largestGroup, leakToVerify) ==
  SelectSeq(largestGroup.userIds, LAMBDA userId : userId # leakToVerify.submittedBy)

DecisionOfVerifiers(leakToVerify, verifierIds) ==
  IF Len(verifierIds) = 0 THEN NoDecision("no verifiers")
  ELSE [decided |-> TRUE, leakId |-> leakToVerify.leakId,
        verifierIds |-> verifierIds, reason |-> "consensus"]

\* leakDetails.find(detail => detail.leakId === leakToVerifyId), found the
\* positions of the details with that id.
DecisionOfFound(leakDetails, largestGroup, found) ==
  IF found = {} THEN NoDecision("leak to verify not found")
  ELSE DecisionOfVerifiers(leakDetails[Lowest(found)],
                           VerifierIds(largestGroup, leakDetails[Lowest(found)]))

\* Mutant: the leak to verify is the last leak of the group.
DecisionOfGroupLast(leakDetails, largestGroup) ==
  DecisionOfFound(leakDetails, largestGroup,
                  {i \in 1..Len(leakDetails) :
                     leakDetails[i].leakId =
                       largestGroup.leakIds[Len(largestGroup.leakIds)]})

DecisionOfGroup(leakDetails, largestGroup) ==
  DecisionOfFound(leakDetails, largestGroup,
                  {i \in 1..Len(leakDetails) :
                     leakDetails[i].leakId = largestGroup.leakIds[1]})

DecisionOfGroups(leakDetails, groups, largest) ==
  IF largest = 0 THEN NoDecision("no group with 2 submitters")
  ELSE DecisionOfGroup(leakDetails, groups[largest])

ResolveGroups(leakDetails, groups) ==
  DecisionOfGroups(leakDetails, groups, LargestGroup(groups))

ResolvePending(leakDetails) ==
  IF Len(leakDetails) < 2 THEN NoDecision("fewer than 2 pending leaks")
  ELSE IF Cardinality(SubmitterSet(leakDetails)) < 2
    THEN NoDecision("fewer than 2 submitters")
  ELSE ResolveGroups(leakDetails, SimilarityGroups(leakDetails))

ResolveConsensus(details) == ResolvePending(PendingDetails(details))


(***************************************************************************)
(* The database and the scheduler.                                         *)
(***************************************************************************)
VARIABLES
  leaks,       \* table "leaks": leak id (1, 2, ...) -> document
  requests,    \* table "requests": request id -> document, existing ids only
  nextRequest, \* the id the next inserted request gets (ids are never reused)
  users,       \* table "users": user -> [points, requests, leaks]
  scheduled,   \* request id -> scheduled processRequestConsensus runs not yet started
  running,     \* bag of decisions of runs between their query and their mutation
  awards,      \* request id -> times applyConsensusResult passed its guards for it
  now,         \* the clock, in days
  ret          \* what the last call returned

vars == <<leaks, requests, nextRequest, users, scheduled, running, awards, now, ret>>

RequestIds == 1..TwoMaxRequests
NoRequest == 0

\* Date.now() - 24 * 60 * 60 * 1000, the clock counting days.
Day == 1

Returned(op, status) == [op |-> op, status |-> status]

Init ==
  /\ leaks = <<>>
  /\ requests = <<>>
  /\ nextRequest = 1
  /\ users = [u \in Users |-> [points |-> 0, requests |-> <<>>, leaks |-> <<>>]]
  /\ scheduled = [r \in RequestIds |-> 0]
  /\ running = EmptyBag
  /\ awards = [r \in RequestIds |-> 0]
  /\ now = 0
  /\ ret = Returned("none", "none")

\* ctx.db.get(id) on the requests table finds a document.
RequestExists(requestId) == requestId \in DOMAIN requests

\* ctx.db.get(id) on the leaks table finds a document (leaks are never deleted).
LeakExists(leakId) == leakId \in DOMAIN leaks

(***************************************************************************)
(* createRequest                                                           *)
(***************************************************************************)
\* targetName.toLowerCase().trim()
NormalizedTargetName(targetName) == Trim(LowerAll(targetName))

UserOpenRequests(userId) ==
  {r \in DOMAIN requests : requests[r].submittedBy = userId /\ ~requests[r].closed}

\* Mutant: the name is looked for among the open requests only.
ExistingOpenRequest(targetName) ==
  \E r \in DOMAIN requests :
     /\ ~requests[r].closed
     /\ NormalizedTargetName(requests[r].targetName) =
          NormalizedTargetName(targetName)

\* allRequests.find(req => req.targetName.toLowerCase().trim() ===
\* normalizedTargetName), over all requests, closed ones included.
ExistingRequest(targetName) ==
  \E r \in DOMAIN requests :
     NormalizedTargetName(requests[r].targetName) =
       NormalizedTargetName(targetName)

\* Mutant: the limit is checked with > in place of >=.
ReachedOpenLimitOffByOne(userId) == Cardinality(UserOpenRequests(userId)) > 3

\* userOpenRequests.length >= 3
ReachedOpenLimit(userId) == Cardinality(UserOpenRequests(userId)) >= 3

createRequest(userId, targetName, validUrl) ==
  /\ UNCHANGED <<leaks, scheduled, running, awards, now>>
  /\ IF userId = NoUser THEN
       /\ ret' = Returned("createRequest", "not logged in")
       /\ UNCHANGED <<requests, nextRequest, users>>
     ELSE IF ~validUrl THEN
       /\ ret' = Returned("createRequest", "invalid url")
       /\ UNCHANGED <<requests, nextRequest, users>>
     ELSE IF ExistingRequest(targetName) THEN
       /\ ret' = Returned("createRequest", "duplicate")
       /\ UNCHANGED <<requests, nextRequest, users>>
     ELSE IF ReachedOpenLimit(userId) THEN
       /\ ret' = Returned("createRequest", "limit reached")
       /\ UNCHANGED <<requests, nextRequest, users>>
     ELSE
       /\ requests' = [r \in DOMAIN requests \cup {nextRequest} |->
                         IF r = nextRequest
                           THEN [targetName |-> targetName,
                                 closed |-> FALSE,
                                 closedBy |-> "none",
                                 leaks |-> <<>>,
                                 submittedBy |-> userId,
                                 creationTime |-> now]
                           ELSE requests[r]]
       /\ nextRequest' = nextRequest + 1
       /\ users' = [users EXCEPT ![userId].requests = Append(@, nextRequest)]
       /\ ret' = Returned("createRequest", "success")

(***************************************************************************)
(* closeRequest                                                            *)
(***************************************************************************)
\* Mutant: the ownership check is missing.
closeRequestOfAnyone(userId, requestId) ==
  /\ IF userId = NoUser THEN
       /\ ret' = Returned("closeRequest", "not logged in")
       /\ UNCHANGED requests
     ELSE IF ~RequestExists(requestId) THEN
       /\ ret' = Returned("closeRequest", "not found")
       /\ UNCHANGED requests
     ELSE IF requests[requestId].closed THEN
       /\ ret' = Returned("closeRequest", "already closed")
       /\ UNCHANGED requests
     ELSE
       /\ requests' = [requests EXCEPT ![requestId].closed = TRUE,
                                       ![requestId].closedBy = "user"]
       /\ ret' = Returned("closeRequest", "success")
  /\ UNCHANGED <<leaks, nextRequest, users, scheduled, running, awards, now>>

\* Mutant: closing pays the owner the award of a request creator.
closeRequestAwarding(userId, requestId) ==
  /\ IF userId = NoUser THEN
       /\ ret' = Returned("closeRequest", "not logged in")
       /\ UNCHANGED <<requests, users>>
     ELSE IF ~RequestExists(requestId) THEN
       /\ ret' = Returned("closeRequest", "not found")
       /\ UNCHANGED <<requests, users>>
     ELSE IF requests[requestId].submittedBy # userId THEN
       /\ ret' = Returned("closeRequest", "not owner")
       /\ UNCHANGED <<requests, users>>
     ELSE IF requests[requestId].closed THEN
       /\ ret' = Returned("closeRequest", "already closed")
       /\ UNCHANGED <<requests, users>>
     ELSE
       /\ requests' = [requests EXCEPT ![requestId].closed = TRUE,
                                       ![requestId].closedBy = "user"]
       /\ users' = [users EXCEPT ![userId].points = @ + 20]
       /\ ret' = Returned("closeRequest", "success")
  /\ UNCHANGED <<leaks, nextRequest, scheduled, running, awards, now>>

closeRequest(userId, requestId) ==
  /\ IF userId = NoUser THEN
       /\ ret' = Returned("closeRequest", "not logged in")
       /\ UNCHANGED requests
     ELSE IF ~RequestExists(requestId) THEN
       /\ ret' = Returned("closeRequest", "not found")
       /\ UNCHANGED requests
     ELSE IF requests[requestId].submittedBy # userId THEN
       /\ ret' = Returned("closeRequest", "not owner")
       /\ UNCHANGED requests
     ELSE IF requests[requestId].closed THEN
       /\ ret' = Returned("closeRequest", "already closed")
       /\ UNCHANGED requests
     ELSE
       /\ requests' = [requests EXCEPT ![requestId].closed = TRUE,
                                       ![requestId].closedBy = "user"]
       /\ ret' = Returned("closeRequest", "success")
  /\ UNCHANGED <<leaks, nextRequest, users, scheduled, running, awards, now>>

(***************************************************************************)
(* deleteOldClosedRequests                                                 *)
(***************************************************************************)
\* Mutant: the cron job deletes what the owner closed whatever its age.
ClosedRequestsOfAnyAge ==
  {r \in DOMAIN requests :
     /\ requests[r].closed
     /\ requests[r].closedBy = "user"}

\* Mutant: the cron job deletes every closed request that is old enough.
OldRequestsClosedAnyhow ==
  {r \in DOMAIN requests :
     /\ requests[r].closed
     /\ requests[r].creationTime < now - Day}

\* The closed requests the loop deletes: request._creationTime < daysAgo &&
\* request.closedBy === "user".
OldClosedRequests ==
  {r \in DOMAIN requests :
     /\ requests[r].closed
     /\ requests[r].creationTime < now - Day
     /\ requests[r].closedBy = "user"}

deleteOldClosedRequests ==
  /\ requests' = [r \in DOMAIN requests \ OldClosedRequests |-> requests[r]]
  /\ users' = [u \in Users |->
                 [users[u] EXCEPT !.requests =
                    SelectSeq(@, LAMBDA id : ~(id \in OldClosedRequests /\
                                               requests[id].submittedBy = u))]]
  /\ ret' = Returned("deleteOldClosedRequests",
                     IF OldClosedRequests = {} THEN "deleted none" ELSE "deleted some")
  /\ UNCHANGED <<leaks, nextRequest, scheduled, running, awards, now>>


(***************************************************************************)
(* insertLeak                                                              *)
(***************************************************************************)
\* Mutant: the loop returns after looking at the first leak only.
AlreadySubmittedFirstOnly(userId, requestId) ==
  /\ Len(requests[requestId].leaks) > 0
  /\ LeakExists(requests[requestId].leaks[1])
  /\ leaks[requests[requestId].leaks[1]].submittedBy = userId

\* The loop over request.leaks looking for a leak of the same user.
AlreadySubmitted(userId, requestId) ==
  \E i \in 1..Len(requests[requestId].leaks) :
     /\ LeakExists(requests[requestId].leaks[i])
     /\ leaks[requests[requestId].leaks[i]].submittedBy = userId

\* Mutant: the new leak is put at the head of the list.
updatedLeaksPrepended(requestLeaks, leakId) == <<leakId>> \o requestLeaks

\* const updatedLeaks = [...(request.leaks ?? []), leakId]
updatedLeaks(requestLeaks, leakId) == Append(requestLeaks, leakId)

insertLeak(userId, validity, requestId, leakText) ==
  LET leakId == Len(leaks) + 1
  IN
  /\ UNCHANGED <<nextRequest, running, awards, now>>
  /\ IF userId = NoUser THEN
       /\ ret' = Returned("insertLeak", "not logged in")
       /\ UNCHANGED <<leaks, requests, users, scheduled>>
     ELSE IF validity # "ok" THEN
       /\ ret' = Returned("insertLeak", validity)
       /\ UNCHANGED <<leaks, requests, users, scheduled>>
     ELSE IF requestId # NoRequest /\ ~RequestExists(requestId) THEN
       /\ ret' = Returned("insertLeak", "request not found")
       /\ UNCHANGED <<leaks, requests, users, scheduled>>
     ELSE IF requestId # NoRequest /\ AlreadySubmitted(userId, requestId) THEN
       /\ ret' = Returned("insertLeak", "already submitted")
       /\ UNCHANGED <<leaks, requests, users, scheduled>>
     ELSE
       /\ leaks' = Append(leaks, [leakText |-> leakText,
                                  submittedBy |-> userId,
                                  isFullyVerified |-> FALSE,
                                  verifiedBy |-> <<>>,
                                  requestId |-> requestId])
       /\ users' = [users EXCEPT ![userId].leaks = Append(@, leakId)]
       /\ IF requestId # NoRequest
            THEN /\ requests' = [requests EXCEPT ![requestId].leaks =
                                             updatedLeaks(@, leakId)]
                 /\ scheduled' = [scheduled EXCEPT ![requestId] = @ + 1]
            ELSE UNCHANGED <<requests, scheduled>>
       /\ ret' = Returned("insertLeak", "success, verified: false")

(***************************************************************************)
(* insertVerifiedLeak                                                      *)
(***************************************************************************)
insertVerifiedLeak(leakText) ==
  /\ leaks' = Append(leaks, [leakText |-> leakText,
                             submittedBy |-> NoUser,
                             isFullyVerified |-> TRUE,
                             verifiedBy |-> <<>>,
                             requestId |-> NoRequest])
  /\ ret' = Returned("insertVerifiedLeak", "success")
  /\ UNCHANGED <<requests, nextRequest, users, scheduled, running, awards, now>>

(***************************************************************************)
(* getRequestConsensusData: the leak details of an existing request.       *)
(***************************************************************************)
RECURSIVE LeakDetailsFrom(_, _)
LeakDetailsFrom(leakIds, i) ==
  IF i > Len(leakIds) THEN <<>>
  ELSE IF LeakExists(leakIds[i])
    THEN <<[leakId |-> leakIds[i],
            leakText |-> leaks[leakIds[i]].leakText,
            submittedBy |-> leaks[leakIds[i]].submittedBy,
            isFullyVerified |-> leaks[leakIds[i]].isFullyVerified]>>
         \o LeakDetailsFrom(leakIds, i + 1)
  ELSE LeakDetailsFrom(leakIds, i + 1)

getRequestConsensusData(requestId) ==
  [closed |-> requests[requestId].closed,
   submittedBy |-> requests[requestId].submittedBy,
   leaks |-> LeakDetailsFrom(requests[requestId].leaks, 1)]

(***************************************************************************)
(* processRequestConsensus, up to its call of applyConsensusResult: the    *)
(* query and the resolver run on the query's snapshot.                     *)
(***************************************************************************)
DecisionOfData(data) ==
  IF data.closed THEN NoDecision("request closed")
  ELSE ResolveConsensus(data.leaks)

ConsensusDecision(requestId) ==
  IF ~RequestExists(requestId) THEN NoDecision("request not found")
  ELSE DecisionOfData(getRequestConsensusData(requestId))

processRequestConsensus(requestId) ==
  /\ scheduled[requestId] > 0
  /\ scheduled' = [scheduled EXCEPT ![requestId] = @ - 1]
  /\ \E decision \in {ConsensusDecision(requestId)} :
       /\ running' = IF decision.decided
                       THEN running (+)
                            SetToBag({[requestId |-> requestId,
                                       leakId |-> decision.leakId,
                                       verifierIds |-> decision.verifierIds]})
                       ELSE running
       /\ ret' = Returned("processRequestConsensus", decision.reason)
  /\ UNCHANGED <<leaks, requests, nextRequest, users, awards, now>>

(***************************************************************************)
(* applyConsensusResult, a mutation: one transaction on the three tables.  *)
(***************************************************************************)
Db == [leaks |-> leaks, requests |-> requests, users |-> users]

\* Mutant: the guards check that the documents exist and forget the two
\* idempotency flags.
ApplyGuardsPassUnguarded(db, requestId, leakId) ==
  /\ requestId \in DOMAIN db.requests
  /\ leakId \in DOMAIN db.leaks
  /\ db.leaks[leakId].submittedBy # NoUser

ApplyGuardsPass(db, requestId, leakId) ==
  /\ requestId \in DOMAIN db.requests
  /\ ~db.requests[requestId].closed
  /\ leakId \in DOMAIN db.leaks
  /\ ~db.leaks[leakId].isFullyVerified
  /\ db.leaks[leakId].submittedBy # NoUser

\* Mutant: the patch writes the award in place of the sum.
AddPointsOverwrite(table, userId, amount) ==
  IF userId \in DOMAIN table
    THEN [table EXCEPT ![userId].points = amount]
    ELSE table

\* points: (user.points ?? 0) + amount, when the user document exists.
AddPoints(table, userId, amount) ==
  IF userId \in DOMAIN table
    THEN [table EXCEPT ![userId].points = @ + amount]
    ELSE table

RECURSIVE AwardVerifiers(_, _, _)
AwardVerifiers(table, verifierIds, i) ==
  IF i > Len(verifierIds) THEN table
  ELSE AwardVerifiers(AddPoints(table, verifierIds[i], 50), verifierIds, i + 1)

\* Mutant: the creator's award is written from the document as it was read
\* before the other awards (a lost update).
AwardPointsStaleRead(table, submitterId, verifierIds, creatorId) ==
  [AwardVerifiers(AddPoints(table, submitterId, 100), verifierIds, 1)
     EXCEPT ![creatorId].points = table[creatorId].points + 20]

\* Each award reads the user document as the awards before it left it.
AwardPoints(table, submitterId, verifierIds, creatorId) ==
  AddPoints(AwardVerifiers(AddPoints(table, submitterId, 100), verifierIds, 1),
            creatorId, 20)

\* Mutant: the patch attaches the verifier list and forgets the flag.
VerifiedLeakWithoutFlag(leak, verifierIds) ==
  [leak EXCEPT !.verifiedBy = verifierIds]

\* Mutant: the patch sets the flag and drops the verifier list.
VerifiedLeakWithoutVerifiers(leak, verifierIds) ==
  [leak EXCEPT !.isFullyVerified = TRUE]

VerifiedLeak(leak, verifierIds) ==
  [leak EXCEPT !.isFullyVerified = TRUE, !.verifiedBy = verifierIds]

\* Mutant: the mutation leaves the request as it is.
LeftOpenByConsensus(request) == request

ClosedByConsensus(request) == [request EXCEPT !.closed = TRUE]

AppliedDb(db, requestId, leakId, verifierIds) ==
  [leaks |-> [db.leaks EXCEPT ![leakId] = VerifiedLeak(@, verifierIds)],
   requests |-> [db.requests EXCEPT ![requestId] = ClosedByConsensus(@)],
   users |-> AwardPoints(db.users, db.leaks[leakId].submittedBy, verifierIds,
                         db.requests[requestId].submittedBy)]

ApplyResult(db, requestId, leakId, verifierIds) ==
  IF ApplyGuardsPass(db, requestId, leakId)
    THEN AppliedDb(db, requestId, leakId, verifierIds)
    ELSE db

applyConsensusResult(requestId, leakId, verifierIds) ==
  /\ \E after \in {ApplyResult(Db, requestId, leakId, verifierIds)} :
       /\ leaks' = after.leaks
       /\ requests' = after.requests
       /\ users' = after.users
  /\ IF ApplyGuardsPass(Db, requestId, leakId)
       THEN /\ awards' = [awards EXCEPT ![requestId] = @ + 1]
            /\ ret' = Returned("applyConsensusResult", "applied")
       ELSE /\ UNCHANGED awards
            /\ ret' = Returned("applyConsensusResult", "discarded")
  /\ UNCHANGED <<nextRequest, scheduled, now>>

\* The second half of a processRequestConsensus run: the mutation it awaits.
processRequestConsensusApply(d) ==
  /\ BagIn(d, running)
  /\ running' = running (-) SetToBag({d})
  /\ applyConsensusResult(d.requestId, d.leakId, d.verifierIds)

(***************************************************************************)
(* Time passes.                                                            *)
(***************************************************************************)
Tick ==
  /\ now' = now + 1
  /\ ret' = Returned("clock", "tick")
  /\ UNCHANGED <<leaks, requests, nextRequest, users, scheduled, running, awards>>

(***************************************************************************)
(* The system: any caller may call any operation at any time, the          *)
(* scheduler runs the scheduled evaluations in any order, and the cron     *)
(* job may run whenever the clock allows.  The bounds cut the run short.   *)
(***************************************************************************)
LooseLeaks == {l \in DOMAIN leaks : leaks[l].requestId = NoRequest}

Callers == Users \cup {NoUser}

\* One request, three users, the clock and the cron job.
Next ==
  \/ /\ nextRequest <= MaxRequests
     /\ \E userId \in Callers, validUrl \in BOOLEAN :
          createRequest(userId, <<"x">>, validUrl)
  \/ \E userId \in Users, requestId \in 1..MaxRequests :
       closeRequest(userId, requestId)
  \/ deleteOldClosedRequests
  \/ /\ Len(leaks) < MaxLeaks
     /\ \E userId \in Users, requestId \in 1..MaxRequests, leakText \in {TextA, TextC} :
          insertLeak(userId, "ok", requestId, leakText)
  \/ /\ Len(leaks) < MaxLeaks
     /\ Cardinality(LooseLeaks) < MaxLooseLeaks
     /\ insertLeak("u1", "ok", NoRequest, TextA)
  \/ /\ Len(leaks) < MaxLeaks
     /\ Cardinality(LooseLeaks) < MaxLooseLeaks
     /\ insertVerifiedLeak(TextA)
  \/ \E requestId \in 1..MaxRequests : processRequestConsensus(requestId)
  \/ \E d \in BagToSet(running) : processRequestConsensusApply(d)
  \/ /\ now < MaxTime
     /\ Tick

Spec == Init /\ [][Next]_vars

\* Two requests of one creator and two users who submit the same text to both.
NextTwo ==
  \/ /\ nextRequest <= TwoMaxRequests
     /\ \E targetName \in TargetNames : createRequest("u1", targetName, TRUE)
  \/ \E requestId \in 1..TwoMaxRequests : closeRequest("u1", requestId)
  \/ /\ Len(leaks) < TwoMaxLeaks
     /\ \E userId \in {"u1", "u2"}, requestId \in 1..TwoMaxRequests :
          insertLeak(userId, "ok", requestId, TextB)
  \/ \E requestId \in 1..TwoMaxRequests : processRequestConsensus(requestId)
  \/ \E d \in BagToSet(running) : processRequestConsensusApply(d)

SpecTwo == Init /\ [][NextTwo]_vars

(***************************************************************************)
(* The resolver on its own: one open request whose list is any list of up  *)
(* to MaxDetails leaks, pending or not, of any submitters, and one         *)
(* scheduled evaluation of it.                                             *)
(***************************************************************************)
SnapshotLeaks ==
  [leakText : LeakTexts, submittedBy : Users, isFullyVerified : {FALSE},
   verifiedBy : {<<>>}, requestId : {1}]
  \cup
  [leakText : {TextA}, submittedBy : {"u1"}, isFullyVerified : {TRUE},
   verifiedBy : {<<>>}, requestId : {1}]
  \cup
  [leakText : {TextA}, submittedBy : {NoUser}, isFullyVerified : {FALSE},
   verifiedBy : {<<>>}, requestId : {1}]

LeaksOfUser(table, userId) ==
  SelectSeq([i \in 1..Len(table) |-> i], LAMBDA i : table[i].submittedBy = userId)

InitResolver ==
  /\ leaks \in UNION {[1..n -> SnapshotLeaks] : n \in 0..MaxDetails}
  /\ requests = [r \in {1} |->
                   [targetName |-> <<"x">>,
                    closed |-> FALSE,
                    closedBy |-> "none",
                    leaks |-> [i \in 1..Len(leaks) |-> i],
                    submittedBy |-> "u1",
                    creationTime |-> 0]]
  /\ nextRequest = 2
  /\ users = [u \in Users |->
                [points |-> 0,
                 requests |-> IF u = "u1" THEN <<1>> ELSE <<>>,
                 leaks |-> LeaksOfUser(leaks, u)]]
  /\ scheduled = [r \in RequestIds |-> IF r = 1 THEN 1 ELSE 0]
  /\ running = EmptyBag
  /\ awards = [r \in RequestIds |-> 0]
  /\ now = 0
  /\ ret = Returned("none", "none")

NextResolver ==
  \/ processRequestConsensus(1)
  \/ \E d \in BagToSet(running) : processRequestConsensusApply(d)

SpecResolver == InitResolver /\ [][NextResolver]_vars

(***************************************************************************)
(* Late submissions: one open request and five users who submit to it one  *)
(* after the other, while the evaluations their submissions schedule run   *)
(* and commit at any time.                                                 *)
(***************************************************************************)
LateUsers == <<"u1", "u2", "u3", "u4", "u5">>

InitLate ==
  /\ leaks = <<>>
  /\ requests = [r \in {1} |->
                   [targetName |-> <<"x">>,
                    closed |-> FALSE,
                    closedBy |-> "none",
                    leaks |-> <<>>,
                    submittedBy |-> "u1",
                    creationTime |-> 0]]
  /\ nextRequest = 2
  /\ users = [u \in SeqToSet(LateUsers) |->
                [points |-> 0,
                 requests |-> IF u = "u1" THEN <<1>> ELSE <<>>,
                 leaks |-> <<>>]]
  /\ scheduled = [r \in RequestIds |-> 0]
  /\ running = EmptyBag
  /\ awards = [r \in RequestIds |-> 0]
  /\ now = 0
  /\ ret = Returned("none", "none")

NextLate ==
  \/ /\ Len(leaks) < Len(LateUsers)
     /\ \E leakText \in {TextA, TextC} :
          insertLeak(LateUsers[Len(leaks) + 1], "ok", 1, leakText)
  \/ processRequestConsensus(1)
  \/ \E d \in BagToSet(running) : processRequestConsensusApply(d)

SpecLate == InitLate /\ [][NextLate]_vars

(***************************************************************************)
(* The scheduler at work: the late-submission system with an owner who may *)
(* close the request, where every scheduled evaluation eventually runs and *)
(* every run eventually reaches its mutation.                              *)
(***************************************************************************)
NextLive ==
  \/ /\ Len(leaks) < Len(LateUsers)
     /\ \E leakText \in LeakTexts :
          insertLeak(LateUsers[Len(leaks) + 1], "ok", 1, leakText)
  \/ closeRequest("u1", 1)
  \/ processRequestConsensus(1)
  \/ \E d \in BagToSet(running) : processRequestConsensusApply(d)

\* WF_vars(processRequestConsensus(requestId)) with its ENABLED written out:
\* a run can start exactly when one is scheduled, and starting it takes it
\* off the schedule, so the step always changes vars.
EvaluationsRun(requestId) ==
  \/ []<>(scheduled[requestId] = 0)
  \/ []<><<processRequestConsensus(requestId)>>_vars

SpecLive ==
  /\ InitLate
  /\ [][NextLive]_vars
  /\ EvaluationsRun(1)
  /\ WF_vars(\E d \in BagToSet(running) : processRequestConsensusApply(d))

(***************************************************************************)
(* Submissions of every kind: callers logged in or not, submissions valid  *)
(* or not, attached to the open request, to no request or to a request     *)
(* that does not exist, under the scheduler of SpecLive.                   *)
(***************************************************************************)
Validities == {"ok", "invalid"}

NextSchedule ==
  \/ /\ Len(leaks) < MaxLeaks
     /\ \E userId \in Callers, validity \in Validities,
           requestId \in {NoRequest} \cup RequestIds, leakText \in LeakTexts :
          insertLeak(userId, validity, requestId, leakText)
  \/ processRequestConsensus(1)
  \/ \E d \in BagToSet(running) : processRequestConsensusApply(d)

SpecSchedule ==
  /\ InitLate
  /\ [][NextSchedule]_vars
  /\ EvaluationsRun(1)
  /\ WF_vars(\E d \in BagToSet(running) : processRequestConsensusApply(d))

(***************************************************************************)
(* Repeated evaluation: a request, open or closed, whose list is any list  *)
(* of up to MaxLeaks leaks, and MaxRuns scheduled evaluations of it that   *)
(* run one after the other or overlap, with no submission in between.      *)
(***************************************************************************)
MaxRuns == 3

InitRerun ==
  /\ leaks \in UNION {[1..n -> SnapshotLeaks] : n \in 0..MaxLeaks}
  /\ \E closed \in BOOLEAN :
       requests = [r \in {1} |->
                     [targetName |-> <<"x">>,
                      closed |-> closed,
                      closedBy |-> IF closed THEN "user" ELSE "none",
                      leaks |-> [i \in 1..Len(leaks) |-> i],
                      submittedBy |-> "u1",
                      creationTime |-> 0]]
  /\ nextRequest = 2
  /\ users = [u \in Users |->
                [points |-> 0,
                 requests |-> IF u = "u1" THEN <<1>> ELSE <<>>,
                 leaks |-> LeaksOfUser(leaks, u)]]
  /\ scheduled = [r \in RequestIds |-> IF r = 1 THEN MaxRuns ELSE 0]
  /\ running = EmptyBag
  /\ awards = [r \in RequestIds |-> 0]
  /\ now = 0
  /\ ret = Returned("none", "none")

SpecRerun == InitRerun /\ [][NextResolver]_vars

(***************************************************************************)
(* The requests of one user: they create requests under names that may     *)
(* collide and close them, as others try to, the first request may be      *)
(* closed by consensus, and the cron job deletes what the owner closed a   *)
(* day after its creation.                                                 *)
(***************************************************************************)
MaxCreated == 5
MaxRequestLeaks == 2

\* The name a caller asks for: one no request has had, or one that differs
\* from the first of them in case and trailing whitespace only.
FreshName(id) == [i \in 1..id |-> "a"]

RequestNames(id) == {FreshName(id), <<"A", " ">>}

CreatedIds == 1..MaxCreated

InitRequests ==
  /\ leaks = <<>>
  /\ requests = <<>>
  /\ nextRequest = 1
  /\ users = [u \in Users |-> [points |-> 0, requests |-> <<>>, leaks |-> <<>>]]
  /\ scheduled = [r \in CreatedIds |-> 0]
  /\ running = EmptyBag
  /\ awards = [r \in CreatedIds |-> 0]
  /\ now = 0
  /\ ret = Returned("none", "none")

NextRequests ==
  \/ /\ nextRequest <= MaxCreated
     /\ \E userId \in {"u1", NoUser}, targetName \in RequestNames(nextRequest),
           validUrl \in BOOLEAN :
          createRequest(userId, targetName, validUrl)
  \/ \E userId \in {"u1", "u2", NoUser}, requestId \in DOMAIN requests \cup {nextRequest} :
       closeRequest(userId, requestId)
  \/ deleteOldClosedRequests
  \/ /\ Len(leaks) < MaxRequestLeaks
     /\ insertLeak(LateUsers[Len(leaks) + 2], "ok", 1, TextA)
  \/ processRequestConsensus(1)
  \/ \E d \in BagToSet(running) : processRequestConsensusApply(d)
  \/ /\ now < MaxTime
     /\ Tick

SpecRequests == InitRequests /\ [][NextRequests]_vars

(***************************************************************************)
(* The similarity functions on their own: two leaks of one request whose   *)
(* texts are any two of the texts below, and a caller who normalizes the   *)
(* first and scores the first against the second.                          *)
(***************************************************************************)
MaxChars == 3
MaxTokens == 5

Alphabet == {"a", "A", "b", " ", "\n"}

\* Every text of up to MaxChars characters, and every text of SHINGLE_SIZE to
\* MaxTokens one-letter words.
ShortTexts == UNION {[1..n -> Alphabet] : n \in 0..MaxChars}

WordTexts ==
  {JoinTokens(tokens) :
     tokens \in UNION {[1..n -> {<<"a">>, <<"b">>}] : n \in SHINGLE_SIZE..MaxTokens}}

Texts == ShortTexts \cup WordTexts

InitSimilarity ==
  /\ \E text1 \in Texts, text2 \in Texts :
       leaks = <<[leakText |-> text1, submittedBy |-> "u1",
                  isFullyVerified |-> FALSE, verifiedBy |-> <<>>, requestId |-> 1],
                 [leakText |-> text2, submittedBy |-> "u2",
                  isFullyVerified |-> FALSE, verifiedBy |-> <<>>, requestId |-> 1]>>
  /\ requests = [r \in {1} |->
                   [targetName |-> <<"x">>,
                    closed |-> FALSE,
                    closedBy |-> "none",
                    leaks |-> <<1, 2>>,
                    submittedBy |-> "u1",
                    creationTime |-> 0]]
  /\ nextRequest = 2
  /\ users = [u \in Users |->
                [points |-> 0,
                 requests |-> IF u = "u1" THEN <<1>> ELSE <<>>,
                 leaks |-> LeaksOfUser(leaks, u)]]
  /\ scheduled = [r \in RequestIds |-> 0]
  /\ running = EmptyBag
  /\ awards = [r \in RequestIds |-> 0]
  /\ now = 0
  /\ ret = Returned("none", "none")

callNormalizeText(text) ==
  /\ ret' = Returned("normalizeText",
                     [text |-> text, normalized |-> normalizeText(text)])
  /\ UNCHANGED <<leaks, requests, nextRequest, users, scheduled, running, awards, now>>

callCalculateSimilarity(text1, text2) ==
  /\ ret' = Returned("calculateSimilarity",
                     [text1 |-> text1, text2 |-> text2,
                      score |-> calculateSimilarity(text1, text2)])
  /\ UNCHANGED <<leaks, requests, nextRequest, users, scheduled, running, awards, now>>

NextSimilarity ==
  \/ callNormalizeText(leaks[1].leakText)
  \/ callCalculateSimilarity(leaks[1].leakText, leaks[2].leakText)

SpecSimilarity == InitSimilarity /\ [][NextSimilarity]_vars

(***************************************************************************)
(* Properties.                                                             *)
(***************************************************************************)
\* The arguments applyConsensusResult may be called with: any request id, any
\* leak id up to one that does not exist yet, any list of one or two distinct
\* users.
ArgLeakIds == 1..(Len(leaks) + 1)
ArgVerifierLists ==
  {<<u>> : u \in Users}
    \cup {pair \in {<<u, v>> : u \in Users, v \in Users} : pair[1] # pair[2]}

\* The five guards of applyConsensusResult, on the tables as they stand.
GuardsHold(requestId, leakId) ==
  /\ requestId \in DOMAIN requests
  /\ requests[requestId].closed = FALSE
  /\ leakId \in DOMAIN leaks
  /\ leaks[leakId].isFullyVerified = FALSE
  /\ leaks[leakId].submittedBy \in Users

\* This step is the mutation of a run whose decision is d.
AppliesDecision(d) ==
  /\ BagIn(d, running)
  /\ running' = running (-) SetToBag({d})

VerifiedLeaksOf(requestId) ==
  {l \in DOMAIN leaks : leaks[l].requestId = requestId /\ leaks[l].isFullyVerified}

HasVerifiedLeak(requestId) ==
  \E i \in 1..Len(requests[requestId].leaks) :
     leaks[requests[requestId].leaks[i]].isFullyVerified

Occurrences(seq, x) == Cardinality({i \in 1..Len(seq) : seq[i] = x})

\* C1: for every request, applyConsensusResult passes its guards at most
\* once, and at most one leak of the request is ever verified.
AtMostOneAwardPerRequest ==
  \A r \in RequestIds :
     /\ awards[r] <= 1
     /\ Cardinality(VerifiedLeaksOf(r)) <= 1

\* C1 witness: a run's mutation was discarded after another run's mutation
\* had verified a leak of the same request.
SecondApplyDiscarded ==
  /\ ret = Returned("applyConsensusResult", "discarded")
  /\ \E r \in RequestIds : awards[r] = 1 /\ Cardinality(VerifiedLeaksOf(r)) = 1

\* C2: applying the same (requestId, leakId, verifierIds) twice leaves the
\* tables as applying it once leaves them.
ApplyTwiceIsApplyOnce ==
  \A r \in RequestIds, l \in ArgLeakIds, vs \in ArgVerifierLists :
     \A once \in {ApplyResult(Db, r, l, vs)} :
        ApplyResult(once, r, l, vs) = once

\* C2 witness: a decision has been applied and a second run still holds the
\* same decision.
SameDecisionPendingAgain ==
  \E d \in BagToSet(running) :
     /\ d.leakId \in DOMAIN leaks
     /\ leaks[d.leakId].isFullyVerified
     /\ leaks[d.leakId].verifiedBy = d.verifierIds
     /\ awards[d.requestId] = 1

\* What a passing mutation with decision d does to the three tables: the leak
\* verified with the given list, the request closed, 100, 50 and 20 points
\* added, every other document and field as before.
ApplyEffect(d) ==
  /\ leaks' = [leaks EXCEPT ![d.leakId].isFullyVerified = TRUE,
                            ![d.leakId].verifiedBy = d.verifierIds]
  /\ DOMAIN requests' = DOMAIN requests
  /\ requests'[d.requestId].closed
  /\ requests'[d.requestId].leaks = requests[d.requestId].leaks
  /\ requests'[d.requestId].submittedBy = requests[d.requestId].submittedBy
  /\ requests'[d.requestId].targetName = requests[d.requestId].targetName
  /\ \A r \in DOMAIN requests \ {d.requestId} : requests'[r] = requests[r]
  /\ \A u \in Users :
       /\ users'[u].points =
            users[u].points
            + (IF u = leaks[d.leakId].submittedBy THEN 100 ELSE 0)
            + 50 * Occurrences(d.verifierIds, u)
            + (IF u = requests[d.requestId].submittedBy THEN 20 ELSE 0)
       /\ users'[u].requests = users[u].requests
       /\ users'[u].leaks = users[u].leaks

\* C3: a mutation that passes its guards verifies the leak with the given
\* verifier list, closes the request, adds 100 to the submitter, 50 to each
\* verifier and 20 to the creator, all in the one step, and changes nothing
\* else.
ApplyCommitsAtomically ==
  [][\A d \in BagToSet(running) :
       (AppliesDecision(d) /\ GuardsHold(d.requestId, d.leakId)) => ApplyEffect(d)]_vars

\* C3 witness: a mutation has passed its guards, with two verifiers.
AppliedWithTwoVerifiers ==
  /\ ret = Returned("applyConsensusResult", "applied")
  /\ \E l \in DOMAIN leaks : Len(leaks[l].verifiedBy) = 2

\* C4: a request one of whose leaks is verified is closed with
\* closedBy = "verification".
ClosedByVerificationRecorded ==
  \A r \in DOMAIN requests :
     HasVerifiedLeak(r) =>
       requests[r].closed /\ requests[r].closedBy = "verification"

\* C5: the creator's 20 points come on top: 120 in all for a creator who is
\* the canonical submitter, 70 in all for a creator who is a verifier.
CreatorAwardIsAdditive ==
  [][\A d \in BagToSet(running) :
       (AppliesDecision(d) /\ GuardsHold(d.requestId, d.leakId)) =>
         /\ requests[d.requestId].submittedBy = leaks[d.leakId].submittedBy =>
              users'[leaks[d.leakId].submittedBy].points =
                users[leaks[d.leakId].submittedBy].points + 120
         /\ SeqContains(d.verifierIds, requests[d.requestId].submittedBy) =>
              users'[requests[d.requestId].submittedBy].points =
                users[requests[d.requestId].submittedBy].points + 70]_vars

\* C5 witness: a verification whose canonical submitter created the request
\* has been applied.
CreatorWasSubmitter ==
  /\ ret = Returned("applyConsensusResult", "applied")
  /\ \E r \in DOMAIN requests, l \in DOMAIN leaks :
       /\ leaks[l].requestId = r
       /\ leaks[l].isFullyVerified
       /\ leaks[l].submittedBy = requests[r].submittedBy
       /\ users[requests[r].submittedBy].points = 120

\* C6: when a guard fails (request missing or closed, leak missing, verified
\* or without submitter) applyConsensusResult leaves all three tables as they
\* are.
GuardFailureChangesNothing ==
  \A r \in RequestIds, l \in ArgLeakIds, vs \in ArgVerifierLists :
     ~GuardsHold(r, l) => ApplyResult(Db, r, l, vs) = Db

\* C6 witness: a run's mutation has been discarded for a request its owner
\* closed after the run's query.
DiscardedAfterUserClose ==
  /\ ret = Returned("applyConsensusResult", "discarded")
  /\ \E r \in DOMAIN requests : requests[r].closedBy = "user" /\ awards[r] = 0

\* The points the verifications on record are worth to user u.
PointsOwed(u) ==
  100 * Cardinality({l \in DOMAIN leaks :
                       leaks[l].isFullyVerified /\ leaks[l].submittedBy = u})
  + 50 * Cardinality({l \in DOMAIN leaks :
                        leaks[l].isFullyVerified /\ SeqContains(leaks[l].verifiedBy, u)})
  + 20 * Cardinality({r \in DOMAIN requests :
                        requests[r].submittedBy = u /\ HasVerifiedLeak(r)})

\* C7: every user's points are 100 for each verified leak they submitted, 50
\* for each verified leak that lists them as verifier and 20 for each of their
\* requests closed by a verification, also when two requests resolve
\* concurrently.
PointsMatchVerifications == \A u \in Users : users[u].points = PointsOwed(u)

\* C7 witness: two requests have been resolved and one user is the verifier
\* of both.
VerifierOfTwoRequests ==
  \E u \in Users :
     \A r \in RequestIds :
        /\ awards[r] = 1
        /\ \E l \in VerifiedLeaksOf(r) : SeqContains(leaks[l].verifiedBy, u)

\* C8: a verified leak stays verified and keeps its verifier list.
VerifiedIsStable ==
  [][\A l \in DOMAIN leaks :
       leaks[l].isFullyVerified =>
         /\ leaks'[l].isFullyVerified
         /\ leaks'[l].verifiedBy = leaks[l].verifiedBy]_vars

\* C8 witness: a later mutation naming more verifiers for an already verified
\* leak has been discarded.
LongerListDiscarded ==
  /\ ret = Returned("applyConsensusResult", "discarded")
  /\ \E l \in DOMAIN leaks :
       /\ leaks[l].isFullyVerified
       /\ Len(leaks[l].verifiedBy) = 1
       /\ Cardinality({k \in DOMAIN leaks : leaks[k].requestId = leaks[l].requestId}) = 3
       /\ leaks[l].requestId # NoRequest

\* C9: a closed request stays closed while it exists, none of its leaks
\* changes its verification status and no points are awarded for it.
ClosedIsFinal ==
  [][\A r \in DOMAIN requests :
       requests[r].closed =>
         /\ r \in DOMAIN requests' => requests'[r].closed
         /\ \A i \in 1..Len(requests[r].leaks) :
              leaks'[requests[r].leaks[i]].isFullyVerified =
                leaks[requests[r].leaks[i]].isFullyVerified
         /\ awards'[r] = awards[r]
         /\ \A d \in BagToSet(running) :
              (AppliesDecision(d) /\ d.requestId = r) =>
                \A u \in Users : users'[u].points = users[u].points]_vars

\* C9 witness: insertLeak has appended a leak to a closed request and
\* scheduled an evaluation of it.
LateSubmissionAccepted ==
  /\ ret = Returned("insertLeak", "success, verified: false")
  /\ leaks # <<>>
  /\ leaks[Len(leaks)].requestId \in DOMAIN requests
  /\ requests[leaks[Len(leaks)].requestId].closed
  /\ scheduled[leaks[Len(leaks)].requestId] > 0

\* No two leaks of a request's list have the same submitter.
DistinctSubmitters ==
  \A r \in DOMAIN requests :
     \A i, j \in 1..Len(requests[r].leaks) :
        i # j =>
          leaks[requests[r].leaks[i]].submittedBy #
            leaks[requests[r].leaks[j]].submittedBy

\* C10: no two leaks of a request's list ever have the same submitter, and an
\* insertLeak that finds a leak of the same user in the list returns its error
\* and changes nothing.
OneLeakPerSubmitter ==
  /\ []DistinctSubmitters
  /\ [][ret' = Returned("insertLeak", "already submitted") =>
          UNCHANGED <<leaks, requests, nextRequest, users, scheduled, running,
                      awards, now>>]_vars

\* C10 witness: insertLeak has refused a second leak of the same user for a
\* request that holds two leaks.
SecondSubmissionRefused ==
  /\ ret = Returned("insertLeak", "already submitted")
  /\ \E r \in DOMAIN requests : Len(requests[r].leaks) >= 2

\* C11: a leak has a non-empty verifier list only if it is verified.
VerifiersOnlyOnVerified ==
  \A l \in DOMAIN leaks :
     Len(leaks[l].verifiedBy) > 0 => leaks[l].isFullyVerified

\* C11 witness: a request holds a verified leak with its verifiers next to
\* an unverified leak without any.
VerifiedBesideUnverified ==
  \E l \in DOMAIN leaks, k \in DOMAIN leaks :
     /\ leaks[l].requestId = leaks[k].requestId
     /\ leaks[l].isFullyVerified /\ Len(leaks[l].verifiedBy) > 0
     /\ ~leaks[k].isFullyVerified /\ leaks[k].verifiedBy = <<>>

\* C12: no step lowers any user's points.
PointsNeverDecrease ==
  [][\A u \in Users : users'[u].points >= users[u].points]_vars

\* C12 witness: a user who already had points has been awarded again.
AwardedTwice ==
  /\ ret = Returned("applyConsensusResult", "applied")
  /\ \A r \in RequestIds : awards[r] = 1
  /\ \E u \in Users : users[u].points >= 200

(***************************************************************************)
(* The clusters of a request's pending leaks, stated on positions of the   *)
(* request's list: a founder is a pending leak that no earlier founder     *)
(* matches; every other pending leak belongs to the earliest founder that  *)
(* matches it.                                                             *)
(***************************************************************************)
LeakAt(r, i) == leaks[requests[r].leaks[i]]

PendingPositions(r) ==
  {i \in 1..Len(requests[r].leaks) :
     /\ LeakAt(r, i).submittedBy # NoUser
     /\ LeakAt(r, i).isFullyVerified = FALSE}

\* The text at position j, as a representative, scores at least 0.85 against
\* the text at position i.
Matches(r, j, i) ==
  ScoreAtLeast(Similarity(LeakAt(r, j).leakText, LeakAt(r, i).leakText),
               Ratio(85, 100))

\* The founders among the first i - 1 positions being F, those of the whole
\* list.
RECURSIVE FoundersFrom(_, _, _)
FoundersFrom(r, i, F) ==
  IF i > Len(requests[r].leaks) THEN F
  ELSE IF i \in PendingPositions(r) /\ \A j \in F : ~Matches(r, j, i)
    THEN FoundersFrom(r, i + 1, F \cup {i})
  ELSE FoundersFrom(r, i + 1, F)

Founders(r) == FoundersFrom(r, 1, {})

Earliest(S) == CHOOSE i \in S : \A j \in S : i <= j

ClusterOf(r, F, f) ==
  {i \in PendingPositions(r) :
     IF i \in F THEN i = f
     ELSE f = Earliest({g \in F : g < i /\ Matches(r, g, i)})}

SubmittersOf(r, S) == {LeakAt(r, i).submittedBy : i \in S}

QualifyingOf(r, F) ==
  {f \in F : Cardinality(SubmittersOf(r, ClusterOf(r, F, f))) >= 2}

\* The qualifying cluster with the most distinct submitters, the earliest
\* founded among those that have as many.
WinnerOf(r, F, Q) ==
  CHOOSE f \in Q :
    \A g \in Q :
       \/ Cardinality(SubmittersOf(r, ClusterOf(r, F, f))) >
            Cardinality(SubmittersOf(r, ClusterOf(r, F, g)))
       \/ /\ Cardinality(SubmittersOf(r, ClusterOf(r, F, f))) =
               Cardinality(SubmittersOf(r, ClusterOf(r, F, g)))
          /\ f <= g

\* This step is the first half of a run for request r: the query and the
\* resolver.
RunsEvaluation(r) == scheduled'[r] = scheduled[r] - 1

\* C13: a run whose snapshot has fewer than 2 pending leaks, or whose pending
\* leaks come from fewer than 2 submitters, hands nothing to the applier and
\* changes nothing.
NoDecisionOnTooFew ==
  [][\A r \in DOMAIN requests :
       (/\ RunsEvaluation(r)
        /\ \/ Cardinality(PendingPositions(r)) < 2
           \/ Cardinality(SubmittersOf(r, PendingPositions(r))) < 2)
       => /\ running' = running
          /\ UNCHANGED <<leaks, requests, users, awards>>
          /\ ret'.op = "processRequestConsensus"]_vars

\* C13 witness: a run has ended without decision on three pending leaks of
\* one submitter.
ThreeLeaksOneSubmitter ==
  /\ ret.op = "processRequestConsensus"
  /\ running = EmptyBag
  /\ Cardinality(PendingPositions(1)) >= 3
  /\ Cardinality(SubmittersOf(1, PendingPositions(1))) = 1

\* The groups the resolver builds from the pending leaks of request r.
GroupsOf(r) ==
  SimilarityGroups(PendingDetails(getRequestConsensusData(r).leaks))

FounderNo(F, k) == CHOOSE f \in F : Cardinality({g \in F : g < f}) = k - 1

\* Group G is the cluster of founder f: the founder's text represents it, the
\* founder is its first leak, and its leaks are the cluster's leaks, one per
\* submitter (the first of each).
GroupIsCluster(r, G, C, f) ==
  /\ G.representativeText = LeakAt(r, f).leakText
  /\ G.leakIds[1] = requests[r].leaks[f]
  /\ SeqToSet(G.leakIds) =
       {requests[r].leaks[i] :
          i \in {i \in C : \A j \in C :
                     j < i => LeakAt(r, j).submittedBy # LeakAt(r, i).submittedBy}}
  /\ SeqToSet(G.userIds) = SubmittersOf(r, C)

\* C14: the resolver's groups are, in order, the clusters of the founders:
\* every pending leak is placed by the first representative that scores at
\* least 0.85 against it, and founds a group when none does.
GroupsFollowRepresentatives ==
  \A r \in DOMAIN requests :
     \A F \in {Founders(r)} :
        \A groups \in {GroupsOf(r)} :
           /\ Len(groups) = Cardinality(F)
           /\ \A k \in 1..Len(groups) :
                \A f \in {FounderNo(F, k)} :
                   GroupIsCluster(r, groups[k], ClusterOf(r, F, f), f)

\* C14 witness: of three pending leaks with texts a-a-b, a-b, a-b-b in this
\* order, the third matches the second and not the first, and the run's
\* decision names the second leak's submitter as only verifier.
ThirdMatchesSecondOnly ==
  /\ Len(leaks) = 3
  /\ PendingPositions(1) = {1, 2, 3}
  /\ leaks[1].leakText = TextA /\ leaks[2].leakText = TextB
  /\ leaks[3].leakText = TextC
  /\ Cardinality(SubmittersOf(1, {1, 2, 3})) = 3
  /\ Matches(1, 2, 3) /\ ~Matches(1, 1, 3)
  /\ \E d \in BagToSet(running) :
       d.leakId = 1 /\ d.verifierIds = <<leaks[2].submittedBy>>

\* C15: a run on an open request decides for a leak of the cluster with the
\* most distinct submitters among those with at least 2, the earliest
\* founded on a tie, and decides and changes nothing when no cluster has 2.
WinnerIsLargestThenEarliest ==
  [][\A r \in DOMAIN requests :
       (RunsEvaluation(r) /\ ~requests[r].closed) =>
         \A F \in {Founders(r)} :
            \A Q \in {QualifyingOf(r, F)} :
               IF Q = {}
                 THEN /\ running' = running
                      /\ UNCHANGED <<leaks, requests, users, awards>>
                 ELSE \E d \in BagToSet(running') :
                        /\ running' = running (+) SetToBag({d})
                        /\ d.requestId = r
                        /\ d.leakId \in
                             {requests[r].leaks[i] :
                                i \in ClusterOf(r, F, WinnerOf(r, F, Q))}]_vars

\* C15 witness: a run has decided for the third leak, whose cluster of three
\* submitters was founded after a cluster of two.
LaterLargerClusterWon ==
  /\ Len(leaks) = 5
  /\ PendingPositions(1) = 1..5
  /\ Cardinality(SubmittersOf(1, {1, 2})) = 2
  /\ Matches(1, 1, 2) /\ ~Matches(1, 1, 3)
  /\ \E d \in BagToSet(running) : d.leakId = 3 /\ Len(d.verifierIds) = 2

\* C16: the decision of a run names the leak of the winning cluster that is
\* earliest in the request's list, and as verifiers the distinct submitters
\* of the winning cluster other than that leak's submitter, each once.
DecisionNamesCanonicalAndVerifiers ==
  [][\A r \in DOMAIN requests :
       (RunsEvaluation(r) /\ ~requests[r].closed) =>
         \A F \in {Founders(r)} :
            \A Q \in {QualifyingOf(r, F)} :
               Q # {} =>
                 \A C \in {ClusterOf(r, F, WinnerOf(r, F, Q))} :
                    \E d \in BagToSet(running') :
                       /\ running' = running (+) SetToBag({d})
                       /\ d.leakId = requests[r].leaks[Earliest(C)]
                       /\ SeqToSet(d.verifierIds) =
                            SubmittersOf(r, C) \ {LeakAt(r, Earliest(C)).submittedBy}
                       /\ Len(d.verifierIds) = Cardinality(SeqToSet(d.verifierIds))]_vars

\* C16 witness: a run has decided on a list whose first leak is not pending
\* and whose winning cluster holds two leaks of one submitter.
CanonicalAfterSkippedLeak ==
  /\ Len(leaks) = 5
  /\ 1 \notin PendingPositions(1)
  /\ leaks[3].submittedBy = leaks[4].submittedBy
  /\ \E d \in BagToSet(running) :
       /\ d.leakId = 2
       /\ Len(d.verifierIds) = 2
       /\ d.verifierIds[1] = leaks[3].submittedBy
       /\ d.verifierIds[2] = leaks[5].submittedBy

\* The pending leaks of request r that score below 0.85 against every other
\* pending leak of r, by position.
Unmatched(r) ==
  {i \in PendingPositions(r) :
     \A j \in PendingPositions(r) \ {i} : ~Matches(r, i, j) /\ ~Matches(r, j, i)}

\* C17: while a request is open, no step verifies a pending leak of it that
\* matches no other pending leak, and the verification of another leak of
\* the request pays that leak's submitter at most the 20 points of a request
\* creator.
UnmatchedNeverVerified ==
  [][\A r \in DOMAIN requests :
       ~requests[r].closed =>
         \A i \in Unmatched(r) :
            /\ leaks'[requests[r].leaks[i]].isFullyVerified = FALSE
            /\ \A d \in BagToSet(running) :
                 (AppliesDecision(d) /\ d.requestId = r) =>
                   users'[LeakAt(r, i).submittedBy].points =
                     users[LeakAt(r, i).submittedBy].points +
                       (IF LeakAt(r, i).submittedBy = requests[r].submittedBy
                          THEN 20 ELSE 0)]_vars

\* C17 witness: the first leak of a request matched no other and stays
\* unverified, without points for its submitter, after a later leak of the
\* request has been verified.
FirstLeakLeftUnverified ==
  /\ ret = Returned("applyConsensusResult", "applied")
  /\ \E r \in DOMAIN requests :
       /\ Len(requests[r].leaks) = 3
       /\ ~LeakAt(r, 1).isFullyVerified
       /\ LeakAt(r, 2).isFullyVerified
       /\ ~ScoreAtLeast(Similarity(LeakAt(r, 1).leakText, LeakAt(r, 2).leakText),
                        Ratio(85, 100))
       /\ users[LeakAt(r, 1).submittedBy].points = 0

\* Leak l is verified by this step.
BecomesVerified(l) == ~leaks[l].isFullyVerified /\ leaks'[l].isFullyVerified

\* C18 as stated: a leak that a step verifies is the first leak of the
\* cluster with the most distinct submitters among the pending leaks of its
\* request as the step finds them.
VerifiedIsWinnerAtCommit ==
  [][\A l \in DOMAIN leaks :
       BecomesVerified(l) =>
         \A r \in {leaks[l].requestId} :
            \A F \in {Founders(r)} :
               \A Q \in {QualifyingOf(r, F)} :
                  Q # {} /\ l = requests[r].leaks[WinnerOf(r, F, Q)]]_vars

\* The clusters of the first n leaks of request r's list.
ClusterUpTo(r, F, f, n) == ClusterOf(r, F, f) \cap 1..n

QualifyingUpTo(r, F, n) ==
  {f \in F \cap 1..n :
     Cardinality(SubmittersOf(r, ClusterUpTo(r, F, f, n))) >= 2}

WinnerUpTo(r, F, Q, n) ==
  CHOOSE f \in Q :
    \A g \in Q :
       \/ Cardinality(SubmittersOf(r, ClusterUpTo(r, F, f, n))) >
            Cardinality(SubmittersOf(r, ClusterUpTo(r, F, g, n)))
       \/ /\ Cardinality(SubmittersOf(r, ClusterUpTo(r, F, f, n))) =
               Cardinality(SubmittersOf(r, ClusterUpTo(r, F, g, n)))
          /\ f <= g

\* Leak l with verifier list verifierIds is what the resolver decides on the
\* first n leaks of request r's list.
DecidedOnFirst(r, F, n, l, verifierIds) ==
  \A Q \in {QualifyingUpTo(r, F, n)} :
     /\ Q # {}
     /\ \A w \in {WinnerUpTo(r, F, Q, n)} :
          /\ l = requests[r].leaks[w]
          /\ SeqToSet(verifierIds) =
               SubmittersOf(r, ClusterUpTo(r, F, w, n)) \ {leaks[l].submittedBy}

\* C18 amended: a leak that a step verifies is the first leak of the cluster
\* with the most distinct submitters among the pending leaks its request's
\* list held when the evaluation read it (the list up to some position), and
\* its verifiers are that cluster's other submitters.
VerifiedWasWinnerAtSnapshot ==
  [][\A l \in DOMAIN leaks :
       BecomesVerified(l) =>
         \A r \in {leaks[l].requestId} :
            \A F \in {Founders(r)} :
               \E n \in 1..Len(requests[r].leaks) :
                  DecidedOnFirst(r, F, n, l, leaks'[l].verifiedBy)]_vars

\* C18 witness: the first leak was verified on the word of the second
\* submitter after three submitters had agreed on another text.
VerifiedAgainstLargerCluster ==
  /\ ret = Returned("applyConsensusResult", "applied")
  /\ Len(leaks) = 5
  /\ leaks[1].isFullyVerified
  /\ leaks[1].verifiedBy = <<leaks[2].submittedBy>>
  /\ \A i \in {3, 4, 5} :
       /\ leaks[i].requestId = leaks[1].requestId
       /\ leaks[i].leakText = leaks[3].leakText
       /\ leaks[i].leakText # leaks[1].leakText

\* The leaks verified by consensus: verified leaks that have a submitter
\* (imported leaks are verified from the start and have none).
ConsensusVerified ==
  {l \in DOMAIN leaks : leaks[l].isFullyVerified /\ leaks[l].submittedBy # NoUser}

OpenWithMatchingPair(r) ==
  /\ r \in DOMAIN requests
  /\ ~requests[r].closed
  /\ \E i \in PendingPositions(r), j \in PendingPositions(r) :
       /\ LeakAt(r, i).submittedBy # LeakAt(r, j).submittedBy
       /\ Matches(r, i, j)
       /\ Matches(r, j, i)

ClosedOneWayOrOther(r) ==
  /\ r \in DOMAIN requests
  /\ requests[r].closed
  /\ HasVerifiedLeak(r) \/ requests[r].closedBy = "user"

\* C20: when every scheduled evaluation eventually runs, an open request
\* whose list holds matching leaks of two users is eventually closed, by the
\* verification of one of its leaks or by its owner.
MatchingPairLeadsToClosed ==
  \A r \in RequestIds : OpenWithMatchingPair(r) ~> ClosedOneWayOrOther(r)

\* C20 witness: every scheduled evaluation has run, and the request, whose
\* list holds a matching pair next to a third text, is closed with one leak
\* verified.
AllEvaluationsDone ==
  /\ \A r \in RequestIds : scheduled[r] = 0
  /\ running = EmptyBag
  /\ 1 \in DOMAIN requests
  /\ ClosedOneWayOrOther(1)
  /\ HasVerifiedLeak(1)
  /\ Len(requests[1].leaks) = 3
  /\ \E i \in 1..3 : \A j \in (1..3) \ {i} : ~Matches(1, i, j)


InsertLeakSucceeded == ret'.op = "insertLeak" /\ Len(leaks') = Len(leaks) + 1

AttachedRequest == leaks'[Len(leaks')].requestId

\* C21: a successful insertLeak attached to an existing request schedules
\* exactly one processRequestConsensus run for that request, every other
\* insertLeak schedules none; a run that reaches no decision changes nothing
\* but the schedule; and every scheduled run is eventually over, its mutation
\* included.
SubmissionSchedulesOneRun ==
  /\ [][ret'.op = "insertLeak" =>
          IF InsertLeakSucceeded /\ AttachedRequest # NoRequest
            THEN /\ AttachedRequest \in DOMAIN requests
                 /\ scheduled' = [scheduled EXCEPT ![AttachedRequest] = @ + 1]
            ELSE scheduled' = scheduled]_vars
  /\ [][ret'.op = "processRequestConsensus" /\ ret'.status # "consensus" =>
          UNCHANGED <<leaks, requests, nextRequest, users, running, awards>>]_vars
  /\ [][ret'.op = "processRequestConsensus" =>
          scheduled' = [scheduled EXCEPT ![1] = @ - 1]]_vars
  /\ (scheduled[1] > 0 \/ running # EmptyBag)
       ~> (scheduled[1] = 0 /\ running = EmptyBag)

\* C21 witness: three submissions were made, one to no request and two to the
\* request, whose two runs are over without a decision.
TwoRunsOverWithoutDecision ==
  /\ Len(leaks) = 3
  /\ Len(requests[1].leaks) = 2
  /\ scheduled[1] = 0
  /\ running = EmptyBag
  /\ ~requests[1].closed
  /\ ret.op = "processRequestConsensus"

\* The database one whole run of processRequestConsensus for the request
\* leaves, started in the current state and not interleaved with anything.
RunOnceOf(requestId, decision) ==
  IF decision.decided
    THEN ApplyResult(Db, requestId, decision.leakId, decision.verifierIds)
    ELSE Db

RunOnce(requestId) == RunOnceOf(requestId, ConsensusDecision(requestId))

\* C22: with no submission in between, every step of every run either leaves
\* the database alone or brings it to what one whole run leaves; after a
\* step that changed it one more whole run changes nothing; and when all
\* runs are over one more whole run changes nothing.
RunningAgainChangesNothing ==
  /\ [][Db' = Db \/ Db' = RunOnce(1)]_vars
  /\ [][Db' # Db => RunOnce(1)' = Db']_vars
  /\ [](scheduled[1] = 0 /\ running = EmptyBag => RunOnce(1) = Db)

\* C22 witness: all the runs are over, two of them decided, the mutation of
\* one was applied and the mutation of the other, the last step, discarded.
SecondRunDiscarded ==
  /\ scheduled[1] = 0
  /\ running = EmptyBag
  /\ awards[1] = 1
  /\ requests[1].closed
  /\ HasVerifiedLeak(1)
  /\ ret = Returned("applyConsensusResult", "discarded")

\* C23: no user ever owns more than 3 open requests, and a createRequest
\* that returns the limit error was called by a user who owns 3 and leaves
\* requests, users and leaks as they were.
AtMostThreeOpenRequests ==
  /\ [](\A userId \in Users : Cardinality(UserOpenRequests(userId)) <= 3)
  /\ [][ret' = Returned("createRequest", "limit reached") =>
          /\ \E userId \in Users : Cardinality(UserOpenRequests(userId)) = 3
          /\ UNCHANGED <<leaks, requests, nextRequest, users>>]_vars
  /\ [][ret' = Returned("createRequest", "success") =>
          \E userId \in Users :
             /\ Cardinality(UserOpenRequests(userId)) < 3
             /\ UserOpenRequests(userId)' = UserOpenRequests(userId) \cup {nextRequest}]_vars

\* C23 witness: the user who owns three open requests, after the first of
\* their four was closed by consensus, is refused one more.
RefusedAtThreeOpen ==
  /\ ret = Returned("createRequest", "limit reached")
  /\ Cardinality(UserOpenRequests("u1")) = 3
  /\ 1 \in DOMAIN requests
  /\ requests[1].closed
  /\ HasVerifiedLeak(1)

\* C24: no two existing requests, open or closed, have target names that are
\* equal after lowercasing and trimming, and a createRequest that returns
\* the duplicate error changes nothing.
TargetNamesAreUnique ==
  /\ [](\A r1 \in DOMAIN requests, r2 \in DOMAIN requests :
          r1 # r2 =>
            Trim(LowerAll(requests[r1].targetName)) #
              Trim(LowerAll(requests[r2].targetName)))
  /\ [][ret' = Returned("createRequest", "duplicate") =>
          UNCHANGED <<leaks, requests, nextRequest, users, scheduled, running,
                      awards, now>>]_vars

\* C24 witness: a name that differs in case and whitespace from the name of
\* the first request, which is closed, was refused.
RefusedNameOfClosedRequest ==
  /\ ret = Returned("createRequest", "duplicate")
  /\ 1 \in DOMAIN requests
  /\ requests[1].closed
  /\ requests[1].targetName = <<"a">>

\* C25: closeRequest closes the request when the caller is logged in, the
\* request exists, the caller created it and it is open, setting closed and
\* closedBy "user" and nothing else; in every other case it does not return
\* success and changes nothing.
CloseRequestOnlyByOwner ==
  [][ret'.op = "closeRequest" =>
       \A userId \in Callers, requestId \in DOMAIN requests \cup {nextRequest} :
          closeRequest(userId, requestId) =>
            IF /\ userId # NoUser
               /\ requestId \in DOMAIN requests
               /\ requests[requestId].submittedBy = userId
               /\ ~requests[requestId].closed
              THEN /\ ret'.status = "success"
                   /\ requests' = [requests EXCEPT ![requestId].closed = TRUE,
                                                   ![requestId].closedBy = "user"]
                   /\ UNCHANGED <<leaks, nextRequest, users, scheduled, running,
                                  awards, now>>
              ELSE /\ ret'.status # "success"
                   /\ UNCHANGED <<leaks, requests, nextRequest, users, scheduled,
                                  running, awards, now>>]_vars

\* C25 witness: the owner closed one request and another user was refused
\* closing an open one.
RefusedClosingAnothersRequest ==
  /\ ret = Returned("closeRequest", "not owner")
  /\ \E r \in DOMAIN requests : requests[r].closedBy = "user"
  /\ \E r \in DOMAIN requests : ~requests[r].closed

Scored == ret.op = "calculateSimilarity"

\* C26: two texts with the same normalized form, a text and itself, the empty
\* text and a whitespace-only text among them, score exactly 1.
SameNormalizedFormScoresOne ==
  Scored /\ normalizeText(ret.status.text1) = normalizeText(ret.status.text2)
    => /\ ret.status.score.num = ret.status.score.den
       /\ ret.status.score.den > 0

\* C26 witness: a text of whitespace alone was scored against another text
\* with the same normalized form, the empty one.
WhitespaceScoredAgainstOther ==
  /\ Scored
  /\ ret.status.text1 = <<" ", "\n">>
  /\ ret.status.text2 = <<"\n">>
  /\ ret.status.score = Ratio(1, 1)

\* C27: the score of two texts is the score of the same texts in the other
\* order.
SimilarityIsSymmetric ==
  Scored =>
    ret.status.score = calculateSimilarity(ret.status.text2, ret.status.text1)

\* C27 witness: the second text is the longer one and has more shingles than
\* the first, and the edit distance decided the score.
ShorterScoredAgainstLonger ==
  /\ Scored
  /\ Len(normalizeText(ret.status.text1)) < Len(normalizeText(ret.status.text2))
  /\ Cardinality(DOMAIN buildShingleVector(normalizeText(ret.status.text1))) <
       Cardinality(DOMAIN buildShingleVector(normalizeText(ret.status.text2)))
  /\ ScoreLess(cosineSimilarity(buildShingleVector(normalizeText(ret.status.text1)),
                                buildShingleVector(normalizeText(ret.status.text2))),
               ret.status.score)

\* C28: every score lies in the closed interval from 0 to 1.
SimilarityIsBounded ==
  Scored =>
    /\ ret.status.score.den > 0
    /\ 0 <= ret.status.score.num
    /\ ret.status.score.num <= ret.status.score.den

\* C28 witness: a score strictly between the threshold of the first stage
\* and 1.
ScoredBetweenThresholdAndOne ==
  /\ Scored
  /\ ScoreLess(SHINGLE_THRESHOLD, ret.status.score)
  /\ ScoreLess(ret.status.score, Ratio(1, 1))

\* C29: normalizing a normalized text gives the same text.
NormalizeTextIsIdempotent ==
  ret.op = "normalizeText" =>
    normalizeText(ret.status.normalized) = ret.status.normalized

\* C29 witness: a text with a capital and a run of whitespace at its end was
\* normalized.
CapitalAndWhitespaceNormalized ==
  /\ ret.op = "normalizeText"
  /\ ret.status.text = <<"A", " ", "\n">>
  /\ ret.status.normalized = <<"a">>

\* The shingle vector as the claim words it: the counts of the runs of 4
\* tokens, of the single tokens when the text has fewer than 4.
ShingleCounts(tokens) ==
  IF Len(tokens) < 4 THEN CountTerms(tokens)
  ELSE CountTerms([i \in 1..(Len(tokens) - 3) |->
                     JoinTokens(SubSeq(tokens, i, i + 3))])

\* The edit distance, as the length of a shortest path through the grid of
\* prefix pairs: a step right or down costs 1, a diagonal step costs 0 on
\* equal characters and 1 otherwise.  D holds upper bounds that one round
\* of relaxation improves; Len(s) + Len(t) rounds reach every path.
Relaxed(s, t, D) ==
  [p \in DOMAIN D |->
     Min3(IF p[1] > 0 THEN D[<<p[1] - 1, p[2]>>] + 1 ELSE D[p],
          IF p[2] > 0 THEN D[<<p[1], p[2] - 1>>] + 1 ELSE D[p],
          IF p[1] > 0 /\ p[2] > 0 /\ D[<<p[1] - 1, p[2] - 1>>] +
                                      (IF s[p[1]] = t[p[2]] THEN 0 ELSE 1) < D[p]
            THEN D[<<p[1] - 1, p[2] - 1>>] + (IF s[p[1]] = t[p[2]] THEN 0 ELSE 1)
            ELSE D[p])] @@ <<>>

RECURSIVE RelaxedTimes(_, _, _, _)
RelaxedTimes(s, t, D, rounds) ==
  IF rounds = 0 THEN D ELSE RelaxedTimes(s, t, Relaxed(s, t, D), rounds - 1)

EditDistance(s, t) ==
  RelaxedTimes(s, t,
               [p \in (0..Len(s)) \X (0..Len(t)) |->
                  IF p = <<0, 0>> THEN 0 ELSE Len(s) + Len(t)] @@ <<>>,
               Len(s) + Len(t))[<<Len(s), Len(t)>>]

LongerLength(s, t) == IF Len(s) >= Len(t) THEN Len(s) ELSE Len(t)

\* 1 - editDistance / max(length), the distance never above the length.
EditScore(s, t) ==
  Ratio(LongerLength(s, t) - EditDistance(s, t), LongerLength(s, t))

StagedScore(s, t, cosine) ==
  IF ScoreLess(cosine, Ratio(6, 10)) THEN cosine
  ELSE IF ScoreLess(cosine, EditScore(s, t)) THEN EditScore(s, t)
  ELSE cosine

\* C30: for two texts whose normalized forms differ the score is the cosine
\* of their shingle counts when that is below 0.6, and otherwise the larger
\* of that cosine and 1 - editDistance / max(length) of the normalized forms.
ScoreIsGatedMaximum ==
  Scored /\ normalizeText(ret.status.text1) # normalizeText(ret.status.text2)
    => /\ buildShingleVector(normalizeText(ret.status.text1)) =
            ShingleCounts(Tokens(normalizeText(ret.status.text1)))
       /\ ret.status.score =
            StagedScore(normalizeText(ret.status.text1),
                        normalizeText(ret.status.text2),
                        cosineSimilarity(
                          ShingleCounts(Tokens(normalizeText(ret.status.text1))),
                          ShingleCounts(Tokens(normalizeText(ret.status.text2)))))

\* C30 witness: two texts of five words with a cosine above 0 and below 0.6
\* and a larger edit score, scored by the cosine.
RejectedByFirstStage ==
  /\ Scored
  /\ ret.status.text1 = <<"a", " ", "a", " ", "a", " ", "a", " ", "b">>
  /\ ret.status.text2 = <<"a", " ", "a", " ", "a", " ", "b", " ", "b">>
  /\ ret.status.score = [num |-> 1, den |-> 4]
  /\ ScoreLess(ret.status.score,
               EditScore(ret.status.text1, ret.status.text2))

\* C31: of the owner's closeRequest and a run's applyConsensusResult on one
\* open request exactly one takes effect.  A mutation that commits after the
\* owner's close is discarded and changes no table, whenever the run read
\* its snapshot; a closeRequest that commits after the mutation is refused
\* and changes nothing; so no request closed by its owner has a verified
\* leak or an award.
OwnerCloseAndApplyExclude ==
  /\ [](\A r \in DOMAIN requests :
          requests[r].closedBy = "user" => ~HasVerifiedLeak(r) /\ awards[r] = 0)
  /\ [][\A d \in BagToSet(running) :
          (/\ AppliesDecision(d)
           /\ RequestExists(d.requestId)
           /\ requests[d.requestId].closedBy = "user")
            => /\ Db' = Db
               /\ awards' = awards
               /\ ret' = Returned("applyConsensusResult", "discarded")]_vars
  /\ [][ret'.op = "closeRequest" =>
          \A requestId \in DOMAIN requests :
             (/\ HasVerifiedLeak(requestId)
              /\ closeRequest(requests[requestId].submittedBy, requestId))
               => /\ ret' = Returned("closeRequest", "already closed")
                  /\ UNCHANGED <<leaks, requests, nextRequest, users, scheduled,
                                 running, awards, now>>]_vars

\* C31 witness: the owner's closeRequest has been refused for a request that
\* a run's mutation had closed before, one of whose leaks is verified.
OwnerRefusedAfterApply ==
  /\ ret = Returned("closeRequest", "already closed")
  /\ \E r \in DOMAIN requests :
       /\ HasVerifiedLeak(r)
       /\ awards[r] = 1
       /\ requests[r].closedBy = "none"

\* C32 as stated: the verifier list a step records on the leak it verifies
\* holds the verifiers the resolver yields on the request's list as the step
\* finds it.
VerifiersAreThoseAtCommit ==
  [][\A l \in DOMAIN leaks :
       BecomesVerified(l) =>
         \A decision \in {ConsensusDecision(leaks[l].requestId)} :
            /\ decision.decided
            /\ SeqToSet(leaks'[l].verifiedBy) = SeqToSet(decision.verifierIds)]_vars

\* C32 amended: the verifier list a step records on the leak it verifies is
\* the list the resolver yields, with that leak as canonical, on the
\* request's list as the evaluation read it: the list up to some position.
VerifiersAreThoseAtSnapshot ==
  [][\A l \in DOMAIN leaks :
       BecomesVerified(l) =>
         \A details \in {getRequestConsensusData(leaks[l].requestId).leaks} :
            \E n \in 1..Len(details) :
               \A decision \in {ResolveConsensus(SubSeq(details, 1, n))} :
                  /\ decision.decided
                  /\ decision.leakId = l
                  /\ decision.verifierIds = leaks'[l].verifiedBy]_vars

\* C32 witness: the first leak was verified on the word of the second
\* submitter alone after a third had submitted the same text, and the third
\* has no points.
LateMatchNotCredited ==
  /\ ret = Returned("applyConsensusResult", "applied")
  /\ Len(leaks) >= 3
  /\ leaks[1].isFullyVerified
  /\ leaks[1].verifiedBy = <<leaks[2].submittedBy>>
  /\ leaks[3].requestId = leaks[1].requestId
  /\ leaks[3].leakText = leaks[1].leakText
  /\ leaks[3].submittedBy \notin {leaks[1].submittedBy, leaks[2].submittedBy}
  /\ users[leaks[3].submittedBy].points = 0

CronDeletesOnlyOwnerClosed ==
  [][ret'.op = "deleteOldClosedRequests" =>
       /\ \A r \in DOMAIN requests :
            IF requests[r].closed /\ requests[r].closedBy = "user"
              THEN r \in DOMAIN requests' => requests'[r] = requests[r]
              ELSE r \in DOMAIN requests' /\ requests'[r] = requests[r]
       /\ DOMAIN requests' \subseteq DOMAIN requests
       /\ \A u \in Users :
            /\ users'[u].requests =
                 SelectSeq(users[u].requests, LAMBDA id : id \in DOMAIN requests')
            /\ users'[u].points = users[u].points
            /\ users'[u].leaks = users[u].leaks
       /\ leaks' = leaks]_vars

\* C34 witness: the cron job has deleted the second request and left the
\* first, as old and closed by a verification, in place and in its creator's
\* list.
CronSparedVerifiedRequest ==
  /\ ret = Returned("deleteOldClosedRequests", "deleted some")
  /\ 1 \in DOMAIN requests
  /\ 2 \notin DOMAIN requests
  /\ nextRequest > 2
  /\ requests[1].closed
  /\ requests[1].closedBy = "none"
  /\ HasVerifiedLeak(1)
  /\ requests[1].creationTime + Day < now
  /\ users[requests[1].submittedBy].requests = <<1>>
  /\ users[requests[1].submittedBy].points > 0

\* C35: a run that finds its request gone returns without a decision, and a
\* run's mutation that finds the request gone since the run's query is
\* discarded; either way no leak, request or user changes.
VanishedRequestChangesNothing ==
  /\ [][\A r \in RequestIds :
          (RunsEvaluation(r) /\ r \notin DOMAIN requests)
            => /\ Db' = Db
               /\ running' = running
               /\ awards' = awards
               /\ ret' = Returned("processRequestConsensus", "request not found")]_vars
  /\ [][\A d \in BagToSet(running) :
          (AppliesDecision(d) /\ d.requestId \notin DOMAIN requests)
            => /\ Db' = Db
               /\ awards' = awards
               /\ ret' = Returned("applyConsensusResult", "discarded")]_vars

\* C35 witness: a run's mutation has been discarded for a request that the
\* cron job deleted after the run had read its two matching leaks.
AppliedToDeletedRequest ==
  /\ ret = Returned("applyConsensusResult", "discarded")
  /\ DOMAIN requests = {}
  /\ nextRequest > 1
  /\ Len(leaks) >= 2
  /\ \A l \in DOMAIN leaks : ~leaks[l].isFullyVerified
  /\ \A u \in Users : users[u].points = 0

\* C36: a run that finds a largest group finds that group's first leak among
\* the pending leaks and at least one verifier, and hands its decision to
\* the mutation: no run ends at "leak to verify not found" or at "no
\* verifiers".
LateExitsAreUnreachable ==
  /\ [](ret.status \notin {"leak to verify not found", "no verifiers"})
  /\ [][\A r \in DOMAIN requests :
          (RunsEvaluation(r) /\ ~requests[r].closed) =>
            \A leakDetails \in {PendingDetails(getRequestConsensusData(r).leaks)} :
               \A groups \in {SimilarityGroups(leakDetails)} :
                  LargestGroup(groups) # 0 =>
                    /\ ret' = Returned("processRequestConsensus", "consensus")
                    /\ \E d \in BagToSet(running') :
                         /\ running' = running (+) SetToBag({d})
                         /\ d.leakId = groups[LargestGroup(groups)].leakIds[1]
                         /\ \E i \in 1..Len(leakDetails) : leakDetails[i].leakId = d.leakId
                         /\ Len(d.verifierIds) >= 1
                         /\ Len(d.verifierIds) =
                              Len(groups[LargestGroup(groups)].userIds) - 1]_vars

\* C36 witness: a run has decided for a group that is not the first, whose
\* first leak is the third of four pending leaks after a leak that is not
\* pending.
DecidedForLaterGroup ==
  /\ ret = Returned("processRequestConsensus", "consensus")
  /\ Len(leaks) = 5
  /\ 1 \notin PendingPositions(1)
  /\ PendingPositions(1) = 2..5
  /\ \E d \in BagToSet(running) :
       /\ d.leakId = 4
       /\ d.verifierIds = <<leaks[5].submittedBy>>

IsPrefix(s, t) == Len(s) <= Len(t) /\ SubSeq(t, 1, Len(s)) = s

\* C37: while a request exists, every step leaves its list as it is or
\* appends one leak at its end, so an earlier list is a prefix of every later
\* one; a successful insertLeak for the request appends its new leak, the
\* leak ids of a list are in the order of their insertion, and the id of a
\* deleted request is not used again.
LeaksListOnlyAppends ==
  /\ [](\A r \in DOMAIN requests :
          /\ r < nextRequest
          /\ \A i, j \in 1..Len(requests[r].leaks) :
               i < j => requests[r].leaks[i] < requests[r].leaks[j])
  /\ [][/\ nextRequest' >= nextRequest
        /\ \A r \in DOMAIN requests :
             r \in DOMAIN requests' =>
               /\ IsPrefix(requests[r].leaks, requests'[r].leaks)
               /\ Len(requests'[r].leaks) <= Len(requests[r].leaks) + 1
               /\ (/\ Len(leaks') = Len(leaks) + 1
                   /\ leaks'[Len(leaks')].requestId = r)
                    => requests'[r].leaks = Append(requests[r].leaks, Len(leaks'))]_vars

\* C37 witness: a request's list holds the first and the third leak, a leak
\* attached to no request having been inserted between the two.
LooseLeakBetweenTwoOfList ==
  /\ ret = Returned("insertLeak", "success, verified: false")
  /\ \E r \in DOMAIN requests : requests[r].leaks = <<1, 3>>
  /\ leaks[2].requestId = NoRequest

\* C38: a step of any operation other than applyConsensusResult leaves the
\* verified flag and the verifier list of every existing leak and the points
\* of every user as they are; a leak that insertLeak creates is unverified,
\* without verifiers, and reported as verified: false.
OnlyApplierVerifiesAndAwards ==
  [][ret'.op # "applyConsensusResult" =>
       /\ \A l \in DOMAIN leaks :
            /\ l \in DOMAIN leaks'
            /\ leaks'[l].isFullyVerified = leaks[l].isFullyVerified
            /\ leaks'[l].verifiedBy = leaks[l].verifiedBy
       /\ \A u \in Users : users'[u].points = users[u].points
       /\ (ret'.op = "insertLeak" /\ Len(leaks') > Len(leaks)) =>
            /\ leaks'[Len(leaks')].isFullyVerified = FALSE
            /\ leaks'[Len(leaks')].verifiedBy = <<>>
            /\ ret'.status = "success, verified: false"]_vars

\* C38 witness: a leak has been imported as verified next to a leak verified
\* by consensus, whose verifier and points are as the mutation left them.
ImportedBesideConsensusVerified ==
  /\ ret = Returned("insertVerifiedLeak", "success")
  /\ Len(leaks) = 3
  /\ leaks[3].submittedBy = NoUser /\ leaks[3].isFullyVerified
  /\ leaks[1].isFullyVerified
  /\ leaks[1].verifiedBy = <<leaks[2].submittedBy>>
  /\ users[leaks[1].submittedBy].points >= 100
  /\ users[leaks[2].submittedBy].points >= 50

\* C39: every verified leak that has a submitter is in the list of the
\* request it names, and its verifier list is not empty, names no user twice,
\* does not name the leak's submitter, and names only submitters of other
\* leaks of that list.
VerifiedLeaksHaveProperVerifiers ==
  \A l \in ConsensusVerified :
     /\ leaks[l].requestId \in DOMAIN requests
     /\ SeqContains(requests[leaks[l].requestId].leaks, l)
     /\ Len(leaks[l].verifiedBy) >= 1
     /\ Cardinality(SeqToSet(leaks[l].verifiedBy)) = Len(leaks[l].verifiedBy)
     /\ leaks[l].submittedBy \notin SeqToSet(leaks[l].verifiedBy)
     /\ \A v \in SeqToSet(leaks[l].verifiedBy) :
          \E k \in SeqToSet(requests[leaks[l].requestId].leaks) \ {l} :
             leaks[k].submittedBy = v

\* C39 witness: the second leak of a list was verified on the word of the
\* third leak's submitter, the first leak's submitter, who wrote another
\* text, being no verifier.
SecondLeakVerifiedByThird ==
  /\ Len(leaks) = 3
  /\ \E r \in DOMAIN requests : requests[r].leaks = <<1, 2, 3>>
  /\ ~leaks[1].isFullyVerified
  /\ leaks[1].leakText # leaks[2].leakText
  /\ 2 \in ConsensusVerified
  /\ leaks[2].verifiedBy = <<leaks[3].submittedBy>>

\* C40: in every state, the request of a verified leak, while it exists, is
\* closed, and every user holds the whole of the points that the
\* verifications on record are worth: no state shows a verified leak with
\* its request open or with a part of the awards.
VerifiedMeansClosedAndPaid ==
  /\ \A l \in DOMAIN leaks :
       (/\ leaks[l].isFullyVerified
        /\ leaks[l].requestId \in DOMAIN requests)
         => requests[leaks[l].requestId].closed
  /\ \A r \in DOMAIN requests : HasVerifiedLeak(r) => requests[r].closed
  /\ \A u \in Users : users[u].points = PointsOwed(u)

\* C40 witness: more than a day after its creation a request closed by a
\* verification is still there after a run of the cron job, its creator, who
\* submitted nothing, holding the creator's 20 points.
VerifiedRequestKeptAndPaid ==
  /\ ret = Returned("deleteOldClosedRequests", "deleted none")
  /\ \E r \in DOMAIN requests :
       /\ HasVerifiedLeak(r)
       /\ requests[r].closed
       /\ requests[r].creationTime + Day < now
       /\ users[requests[r].submittedBy].points = 20
=============================================================================
